---------------------------- MODULE Spec2Model ----------------------------
(***************************************************************************)
(* A model of the SPM residual-assembly engine of batmods-lite:            *)
(*   - the domain index maps and the hysteresis extension (options.py),    *)
(*   - residuals and bandwidth (dae.py),                                   *)
(*   - the post-processing loop and the solutions' post/verify             *)
(*     (postutils.py, solutions/_cc_solution.py).                          *)
(*                                                                         *)
(* Numbers are fixed-point integers.  State vectors are functions over     *)
(* the 0-based index range 0..N-1, as the numpy arrays of the source.      *)
(* Divisions of the source are real divisions; the parameters and inputs   *)
(* are chosen so that every integer division below is exact.               *)
(***************************************************************************)
EXTENDS Integers, Sequences, FiniteSets, TLC

(***************************************************************************)
(* Bounds of the model.                                                    *)
(***************************************************************************)
\* radial control volumes per electrode in the residual specifications
NrRes == 2
\* largest radial mesh of the index-map specification
MaxNr == 3
\* fixed-point scale of np.exp: np_exp(x) stands for 2^ExpShift * exp(x)
ExpShift == 4
\* largest number of saved times of a solution
MaxNt == 2
\* number of bandwidth calls in a row
MaxRuns == 2
\* length of the arrays of the perturbation passes taken on their own
PertLen == 2

(***************************************************************************)
(* Small helpers.                                                          *)
(***************************************************************************)
Max2(a, b) == IF a >= b THEN a ELSE b

Abs(a) == IF a >= 0 THEN a ELSE -a

SetMax(S) == CHOOSE x \in S : \A y \in S : y <= x

SetMin(S) == CHOOSE x \in S : \A y \in S : x <= y

\* marks a key that a Python dict does not hold
NoKey == "<absent>"

(***************************************************************************)
(* Constants() and the battery / electrolyte / electrode parameters read   *)
(* by residuals.  alpha*F/(R*T) is 1 per unit of overpotential.            *)
(***************************************************************************)
c == [F |-> 2, R |-> 2]

bat == [area |-> 2, cap |-> 4, temp |-> 1]

el_Li_0 == 1

\* parameters of an electrode; A_s*thick is the same for both so that a
\* balanced state (anode current = cathode current) exists
EdParams(name) ==
  IF name = "anode"
    THEN [Li_max |-> 2, A_s |-> 1, thick |-> 2, alpha_a |-> 1, alpha_c |-> 1,
          hyst0 |-> 0]
    ELSE [Li_max |-> 2, A_s |-> 2, thick |-> 1, alpha_a |-> 1, alpha_c |-> 1,
          hyst0 |-> 0]

\* radial mesh of an electrode with Nr control volumes: faces rm, rp and
\* centres r, on a grid of half-widths (rm = 0,2,4.., r = 1,3,5.., rp = 2,4,..)
Mesh_rm(k) == 2 * (k - 1)

Mesh_rp(k) == 2 * k

Mesh_r(k) == 2 * k - 1

(***************************************************************************)
(* Material / kinetics models of an electrode (external collaborators of   *)
(* residuals): open-circuit potential, exchange current density and        *)
(* solid diffusivity.                                                      *)
(***************************************************************************)
get_Eeq(name, x, T) == IF name = "anode" THEN 2 - x ELSE 4 - x

get_i0(name, x, Li_0, T) == c.F * Li_0 * x

get_Ds(name, x, T) == 2 * x

\* np.exp in fixed point (base 2, scale 2^ExpShift); underflows to 0
np_exp(x) == IF x + ExpShift < 0 THEN 0 ELSE 2 ^ (x + ExpShift)

\* bmlite.math.grad_r: gradient between neighbouring control-volume centres
grad_r(Nr, Li) ==
  [k \in 1..(Nr - 1) |-> (Li[k + 1] - Li[k]) \div (Mesh_r(k + 1) - Mesh_r(k))]

\* bmlite.math.div_r: conservative divergence of the face fluxes Js
\* (Js[k] at face rm[k], Js[k+1] at face rp[k]), area weighted
div_r(Nr, Js) ==
  [k \in 1..Nr |-> Mesh_rp(k) * Mesh_rp(k) * Js[k + 1]
                   - Mesh_rm(k) * Mesh_rm(k) * Js[k]]


(***************************************************************************)
(* Domain index maps.                                                      *)
(***************************************************************************)
\* Electrode.make_mesh, first part: the scalar lookup of an electrode whose
\* first index is pshift: the intercalation profile, then the potential
BasePtr(Nr, pshift) == ("Li_ed" :> pshift) @@ ("phi_ed" :> pshift + Nr)

\* a Hysteresis.make_mesh that forgets to shift the cathode's map
HystMakeMesh_NoShift(name, ptr, pshift) ==
  IF name = "anode"
    THEN ("hyst" :> ptr["phi_ed"] + 1) @@ ptr
    ELSE ("hyst" :> 0 + pshift) @@ ptr

\* Hysteresis.make_mesh: installs the extra 'hyst' index on domain.ptr
HystMakeMesh(name, ptr, pshift) ==
  IF name = "anode"
    THEN ("hyst" :> ptr["phi_ed"] + 1) @@ ptr
    ELSE IF name = "cathode"
      THEN ("hyst" :> 0 + pshift) @@ [k \in DOMAIN ptr |-> ptr[k] + 1]
      ELSE ptr

\* Electrode.make_mesh, last part: once the options have installed
\* themselves the map is final: the first index of the domain, the
\* full-range lookup of the radial profile and the number of indices held
FinalMesh(name, Nr, pshift, ptr) ==
  [name  |-> name,
   Nr    |-> Nr,
   ptr   |-> ("start" :> pshift) @@ ptr,
   r_ptr |-> [k \in 1..Nr |-> ptr["Li_ed"] + (k - 1)],
   size  |-> Cardinality(DOMAIN ptr) - 1 + Nr]

\* Electrode.make_mesh as a whole, with or without the hysteresis option
ElectrodeMesh(name, Nr, pshift, hyst) ==
  FinalMesh(name, Nr, pshift,
            IF hyst THEN HystMakeMesh(name, BasePtr(Nr, pshift), pshift)
                    ELSE BasePtr(Nr, pshift))

\* Simulation.__init__: anode, electrolyte, cathode, each starting where
\* the previous domain ends
MakeSim(NrAn, NrCa, hystAn, hystCa) ==
  LET an == ElectrodeMesh("anode", NrAn, 0, hystAn)
      el == [ptr |-> ("phi_el" :> an.size)]
      ca == ElectrodeMesh("cathode", NrCa, an.size + 1, hystCa)
  IN  [an |-> an, el |-> el, ca |-> ca, N |-> an.size + 1 + ca.size,
       t0 |-> 0]

\* the indices an electrode's map holds, one entry per variable
EdIndexBag(ed) ==
  [k \in 1..ed.Nr |-> ed.r_ptr[k]]
    \o <<ed.ptr["phi_ed"]>>
    \o (IF "hyst" \in DOMAIN ed.ptr THEN <<ed.ptr["hyst"]>> ELSE <<>>)

\* all indices of the simulation-wide map, one entry per variable
SimIndexBag(sim) ==
  EdIndexBag(sim.an) \o <<sim.el.ptr["phi_el"]>> \o EdIndexBag(sim.ca)

IsBijection(sim) ==
  LET b == SimIndexBag(sim)
  IN  /\ Len(b) = sim.N
      /\ \A i \in 0..(sim.N - 1) : Cardinality({p \in 1..Len(b) : b[p] = i}) = 1

\* Hysteresis.sv0: writes hyst0 into the domain-local initial state
\* (a negative index counts from the end, as numpy does)
HystSv0(ed, sv0loc, hyst0) ==
  LET start == ed.ptr["start"]
      j == ed.ptr["hyst"] - start
      jj == IF j < 0 THEN j + ed.size ELSE j
  IN  [i \in DOMAIN sv0loc |-> IF i = jj THEN hyst0 ELSE sv0loc[i]]

(***************************************************************************)
(* residuals (dae.py).                                                     *)
(***************************************************************************)
\* an experiment's value: the function t -> c0 + c1*t
ValueAt(value, t) == value.c0 + value.c1 * t

\* exp before any residuals call: no 'events' entry
NoEvents == [k \in {} |-> 0]

\* what a call returns: None, or a tuple whose items are named in order
RetNone == [kind |-> "None", items |-> <<>>, sdot_an |-> 0, sdot_ca |-> 0]

RetTuple(items, sdot_an, sdot_ca) ==
  [kind |-> "tuple", items |-> items, sdot_an |-> sdot_an, sdot_ca |-> sdot_ca]

\* the radial intercalation profile of an electrode, as a sequence 1..Nr
Profile(ed, sv) == [k \in 1..ed.Nr |-> sv[ed.r_ptr[k]]]

\* Butler-Volmer production rate at the particle surface
\* (anode: lines 173-177, cathode: lines 197-201)
Sdot(ed, xs, phi_ed, phi_el) ==
  LET p == EdParams(ed.name)
      T == bat.temp
      eta == phi_ed - phi_el - get_Eeq(ed.name, xs[ed.Nr], T)
      i0 == get_i0(ed.name, xs[ed.Nr], el_Li_0, T)
  IN  (i0 \div c.F)
        * (  np_exp(((p.alpha_a * c.F * eta) \div c.R) \div T)
           - np_exp(((-p.alpha_c * c.F * eta) \div c.R) \div T))

\* weighted diffusivities at the interior faces
\* (anode: lines 180-183, cathode: lines 204-207)
FaceDs(ed, xs) ==
  LET T == bat.temp
      dr(k) == Mesh_r(k + 1) - Mesh_r(k)
      wtm_Ds(k) == ((Mesh_rp(k) - Mesh_rm(k)) * get_Ds(ed.name, xs[k], T))
                     \div (2 * dr(k))
      wtp_Ds(k) == ((Mesh_rp(k + 1) - Mesh_rm(k + 1))
                      * get_Ds(ed.name, xs[k + 1], T)) \div (2 * dr(k))
  IN  [k \in 1..(ed.Nr - 1) |-> wtm_Ds(k) + wtp_Ds(k)]

\* face fluxes whose surface face has the sign of an influx
FaceJs_SurfaceInflux(ed, xs, sdot) ==
  LET p == EdParams(ed.name)
      Li == [k \in 1..ed.Nr |-> xs[k] * p.Li_max]
      Ds == FaceDs(ed, xs)
      g == grad_r(ed.Nr, Li)
  IN  <<0>> \o [k \in 1..(ed.Nr - 1) |-> Ds[k] * g[k]] \o <<sdot>>

\* the face fluxes: 0 at the centre, Ds*grad inside, -sdot at the surface
\* (anode: line 186, cathode: line 210)
FaceJs(ed, xs, sdot) ==
  LET p == EdParams(ed.name)
      Li == [k \in 1..ed.Nr |-> xs[k] * p.Li_max]
      Ds == FaceDs(ed, xs)
      g == grad_r(ed.Nr, Li)
  IN  <<0>> \o [k \in 1..(ed.Nr - 1) |-> Ds[k] * g[k]] \o <<-sdot>>

\* res[ed.r_ptr['Li_ed']] = Li_max*svdot[...] - div_r(rm, rp, Js)
\* (anode: lines 188-189, cathode: lines 212-213)
WriteLiRows(ed, svdot, Js, res) ==
  LET p == EdParams(ed.name)
      d == div_r(ed.Nr, Js)
      Row(i) == CHOOSE k \in 1..ed.Nr : ed.r_ptr[k] = i
  IN  [i \in DOMAIN res |->
         IF \E k \in 1..ed.Nr : ed.r_ptr[k] = i
           THEN p.Li_max * svdot[i] - d[Row(i)]
           ELSE res[i]]

\* a dispatch whose C-rate branch forgets the capacity
BoundaryRows_NoCap(mode, units, vt, sdot_an, sdot_ca, voltage_V, power_W) ==
  LET an == EdParams("anode")
      ca == EdParams("cathode")
  IN  IF mode = "current"
        THEN [hit |-> TRUE,
              A |-> sdot_ca * ca.A_s * ca.thick * c.F - vt \div bat.area,
              B |-> sdot_an * an.A_s * an.thick * c.F + vt \div bat.area]
      ELSE IF mode = "voltage"
        THEN [hit |-> TRUE,
              A |-> voltage_V - vt,
              B |-> sdot_an * an.A_s * an.thick + sdot_ca * ca.A_s * ca.thick]
      ELSE IF mode = "power"
        THEN [hit |-> TRUE,
              A |-> power_W - vt,
              B |-> sdot_an * an.A_s * an.thick + sdot_ca * ca.A_s * ca.thick]
      ELSE [hit |-> FALSE, A |-> 0, B |-> 0]

\* a dispatch whose power branch takes the power per unit area
BoundaryRows_PerArea(mode, units, vt, sdot_an, sdot_ca, voltage_V, power_W) ==
  LET an == EdParams("anode")
      ca == EdParams("cathode")
  IN  IF mode = "current" /\ units = "A"
        THEN [hit |-> TRUE,
              A |-> sdot_ca * ca.A_s * ca.thick * c.F - vt \div bat.area,
              B |-> sdot_an * an.A_s * an.thick * c.F + vt \div bat.area]
      ELSE IF mode = "current" /\ units = "C"
        THEN [hit |-> TRUE,
              A |-> sdot_ca * ca.A_s * ca.thick * c.F
                      - (vt * bat.cap) \div bat.area,
              B |-> sdot_an * an.A_s * an.thick * c.F
                      + (vt * bat.cap) \div bat.area]
      ELSE IF mode = "voltage"
        THEN [hit |-> TRUE,
              A |-> voltage_V - vt,
              B |-> sdot_an * an.A_s * an.thick + sdot_ca * ca.A_s * ca.thick]
      ELSE IF mode = "power"
        THEN [hit |-> TRUE,
              A |-> power_W \div bat.area - vt,
              B |-> sdot_an * an.A_s * an.thick + sdot_ca * ca.A_s * ca.thick]
      ELSE [hit |-> FALSE, A |-> 0, B |-> 0]

\* the boundary-condition dispatch, lines 229-249: Row A is written to
\* res[ca.ptr['phi_ed']], Row B to res[el.ptr['phi_el']]; hit is FALSE when
\* no branch of the if/elif chain is taken
BoundaryRows(mode, units, vt, sdot_an, sdot_ca, voltage_V, power_W) ==
  LET an == EdParams("anode")
      ca == EdParams("cathode")
  IN  IF mode = "current" /\ units = "A"
        THEN [hit |-> TRUE,
              A |-> sdot_ca * ca.A_s * ca.thick * c.F - vt \div bat.area,
              B |-> sdot_an * an.A_s * an.thick * c.F + vt \div bat.area]
      ELSE IF mode = "current" /\ units = "C"
        THEN [hit |-> TRUE,
              A |-> sdot_ca * ca.A_s * ca.thick * c.F
                      - (vt * bat.cap) \div bat.area,
              B |-> sdot_an * an.A_s * an.thick * c.F
                      + (vt * bat.cap) \div bat.area]
      ELSE IF mode = "voltage"
        THEN [hit |-> TRUE,
              A |-> voltage_V - vt,
              B |-> sdot_an * an.A_s * an.thick + sdot_ca * ca.A_s * ca.thick]
      ELSE IF mode = "power"
        THEN [hit |-> TRUE,
              A |-> power_W - vt,
              B |-> sdot_an * an.A_s * an.thick + sdot_ca * ca.A_s * ca.thick]
      ELSE [hit |-> FALSE, A |-> 0, B |-> 0]

\* an events record that keeps the current per unit area
Events_Density(sim, t, current_A, voltage_V, power_W) ==
  LET total_time == sim.t0 + t
  IN  ("time_s" :> total_time)
        @@ ("time_min" :> total_time \div 60)
        @@ ("time_h" :> total_time \div 3600)
        @@ ("current_A" :> current_A \div bat.area)
        @@ ("current_C" :> current_A \div bat.cap)
        @@ ("voltage_V" :> voltage_V)
        @@ ("power_W" :> power_W)

\* an events record whose hours are minutes
Events_HoursAsMinutes(sim, t, current_A, voltage_V, power_W) ==
  LET total_time == sim.t0 + t
  IN  ("time_s" :> total_time)
        @@ ("time_min" :> total_time \div 60)
        @@ ("time_h" :> total_time \div 60)
        @@ ("current_A" :> current_A)
        @@ ("current_C" :> current_A \div bat.cap)
        @@ ("voltage_V" :> voltage_V)
        @@ ("power_W" :> power_W)

\* exp['events'], lines 252-262
Events(sim, t, current_A, voltage_V, power_W) ==
  LET total_time == sim.t0 + t
  IN  ("time_s" :> total_time)
        @@ ("time_min" :> total_time \div 60)
        @@ ("time_h" :> total_time \div 3600)
        @@ ("current_A" :> current_A)
        @@ ("current_C" :> current_A \div bat.cap)
        @@ ("voltage_V" :> voltage_V)
        @@ ("power_W" :> power_W)

\* lines 265-266: 'return sdot_an, sdot_ca' when sim._flags['post'],
\* else the function falls off its end and returns None
ReturnValue(flags, sdot_an, sdot_ca) ==
  IF flags.post THEN RetTuple(<<"sdot_an", "sdot_ca">>, sdot_an, sdot_ca)
                ELSE RetNone

\* a dispatch that takes the branch from sim._flags['BC'] when it is set
DispatchMode_FromFlag(flags, exp) ==
  IF flags.BC # "None" THEN flags.BC ELSE exp.mode

\* line 219: mode = exp['mode']; sim._flags is not consulted
DispatchMode(flags, exp) == exp.mode

\* a residuals that grounds the anode only in its voltage and power branches
Residuals_AnodeRowInBranch(t, sv, svdot, res, sim, flags, exp) ==
  LET an == sim.an
      el == sim.el
      ca == sim.ca
      pa == EdParams("anode")
      phi_an == sv[an.ptr["phi_ed"]]
      phi_el == sv[el.ptr["phi_el"]]
      phi_ca == sv[ca.ptr["phi_ed"]]
      xs_an == Profile(an, sv)
      xs_ca == Profile(ca, sv)
      \* anode
      sdot_an == Sdot(an, xs_an, phi_an, phi_el)
      Js_an == FaceJs(an, xs_an, sdot_an)
      res1 == WriteLiRows(an, svdot, Js_an, res)
      res2 == IF exp.mode \in {"voltage", "power"}
                THEN [res1 EXCEPT ![an.ptr["phi_ed"]] = phi_an - 0]
                ELSE res1
      \* cathode
      sdot_ca == Sdot(ca, xs_ca, phi_ca, phi_el)
      Js_ca == FaceJs(ca, xs_ca, sdot_ca)
      res3 == WriteLiRows(ca, svdot, Js_ca, res2)
      rows3 == {an.r_ptr[k] : k \in 1..an.Nr} \cup {an.ptr["phi_ed"]}
                 \cup {ca.r_ptr[k] : k \in 1..ca.Nr}
      \* external current
      i_ext == -sdot_an * pa.A_s * pa.thick * c.F
      \* boundary conditions
      keyerr == exp.mode = NoKey \/ exp.units = NoKey
      voltage_V == phi_ca
      current_A == i_ext * bat.area
      power_W == current_A * voltage_V
      bc == BoundaryRows(DispatchMode(flags, exp), exp.units,
                         ValueAt(exp.value, t),
                         sdot_an, sdot_ca, voltage_V, power_W)
      res4 == IF bc.hit
                THEN [res3 EXCEPT ![ca.ptr["phi_ed"]] = bc.A,
                                  ![el.ptr["phi_el"]] = bc.B]
                ELSE res3
      rows4 == IF bc.hit
                 THEN rows3 \cup {ca.ptr["phi_ed"], el.ptr["phi_el"]}
                 ELSE rows3
  IN  IF keyerr
        THEN [res |-> res3, written |-> rows3, events |-> exp.events,
              ret |-> RetNone, err |-> "KeyError",
              sv |-> sv, svdot |-> svdot, flags |-> flags]
        ELSE [res |-> res4, written |-> rows4,
              events |-> Events(sim, t, current_A, voltage_V, power_W),
              ret |-> ReturnValue(flags, sdot_an, sdot_ca), err |-> "none",
              sv |-> sv, svdot |-> svdot, flags |-> flags]

\* a residuals that turns the anode's fractions into concentrations in
\* place, on the caller's sv (Li_an = xs_an; Li_an *= an.Li_max on a view)
Residuals_ScalesInPlace(t, sv, svdot, res, sim, flags, exp) ==
  LET an == sim.an
      el == sim.el
      ca == sim.ca
      pa == EdParams("anode")
      phi_an == sv[an.ptr["phi_ed"]]
      phi_el == sv[el.ptr["phi_el"]]
      phi_ca == sv[ca.ptr["phi_ed"]]
      xs_an == Profile(an, sv)
      xs_ca == Profile(ca, sv)
      sv_out == [i \in DOMAIN sv |->
                   IF \E k \in 1..an.Nr : an.r_ptr[k] = i
                     THEN sv[i] * pa.Li_max
                     ELSE sv[i]]
      \* anode
      sdot_an == Sdot(an, xs_an, phi_an, phi_el)
      Js_an == FaceJs(an, xs_an, sdot_an)
      res1 == WriteLiRows(an, svdot, Js_an, res)
      res2 == [res1 EXCEPT ![an.ptr["phi_ed"]] = phi_an - 0]
      \* cathode
      sdot_ca == Sdot(ca, xs_ca, phi_ca, phi_el)
      Js_ca == FaceJs(ca, xs_ca, sdot_ca)
      res3 == WriteLiRows(ca, svdot, Js_ca, res2)
      rows3 == {an.r_ptr[k] : k \in 1..an.Nr} \cup {an.ptr["phi_ed"]}
                 \cup {ca.r_ptr[k] : k \in 1..ca.Nr}
      \* external current
      i_ext == -sdot_an * pa.A_s * pa.thick * c.F
      \* boundary conditions
      keyerr == exp.mode = NoKey \/ exp.units = NoKey
      voltage_V == phi_ca
      current_A == i_ext * bat.area
      power_W == current_A * voltage_V
      bc == BoundaryRows(DispatchMode(flags, exp), exp.units,
                         ValueAt(exp.value, t),
                         sdot_an, sdot_ca, voltage_V, power_W)
      res4 == IF bc.hit
                THEN [res3 EXCEPT ![ca.ptr["phi_ed"]] = bc.A,
                                  ![el.ptr["phi_el"]] = bc.B]
                ELSE res3
      rows4 == IF bc.hit
                 THEN rows3 \cup {ca.ptr["phi_ed"], el.ptr["phi_el"]}
                 ELSE rows3
  IN  IF keyerr
        THEN [res |-> res3, written |-> rows3, events |-> exp.events,
              ret |-> RetNone, err |-> "KeyError",
              sv |-> sv_out, svdot |-> svdot, flags |-> flags]
        ELSE [res |-> res4, written |-> rows4,
              events |-> Events(sim, t, current_A, voltage_V, power_W),
              ret |-> ReturnValue(flags, sdot_an, sdot_ca), err |-> "none",
              sv |-> sv_out, svdot |-> svdot, flags |-> flags]

\* residuals(t, sv, svdot, res, (sim, exp)), lines 146-266.  flags is
\* sim._flags.  The result holds everything the call leaves behind: the res
\* buffer, the rows it assigned (written), exp['events'], the value returned
\* or the error raised, and the arrays and flags it was handed.
Residuals(t, sv, svdot, res, sim, flags, exp) ==
  LET an == sim.an
      el == sim.el
      ca == sim.ca
      pa == EdParams("anode")
      phi_an == sv[an.ptr["phi_ed"]]
      phi_el == sv[el.ptr["phi_el"]]
      phi_ca == sv[ca.ptr["phi_ed"]]
      xs_an == Profile(an, sv)
      xs_ca == Profile(ca, sv)
      \* anode
      sdot_an == Sdot(an, xs_an, phi_an, phi_el)
      Js_an == FaceJs(an, xs_an, sdot_an)
      res1 == WriteLiRows(an, svdot, Js_an, res)
      res2 == [res1 EXCEPT ![an.ptr["phi_ed"]] = phi_an - 0]
      \* cathode
      sdot_ca == Sdot(ca, xs_ca, phi_ca, phi_el)
      Js_ca == FaceJs(ca, xs_ca, sdot_ca)
      res3 == WriteLiRows(ca, svdot, Js_ca, res2)
      rows3 == {an.r_ptr[k] : k \in 1..an.Nr} \cup {an.ptr["phi_ed"]}
                 \cup {ca.r_ptr[k] : k \in 1..ca.Nr}
      \* external current
      i_ext == -sdot_an * pa.A_s * pa.thick * c.F
      \* boundary conditions
      keyerr == exp.mode = NoKey \/ exp.units = NoKey
      voltage_V == phi_ca
      current_A == i_ext * bat.area
      power_W == current_A * voltage_V
      bc == BoundaryRows(DispatchMode(flags, exp), exp.units,
                         ValueAt(exp.value, t),
                         sdot_an, sdot_ca, voltage_V, power_W)
      res4 == IF bc.hit
                THEN [res3 EXCEPT ![ca.ptr["phi_ed"]] = bc.A,
                                  ![el.ptr["phi_el"]] = bc.B]
                ELSE res3
      rows4 == IF bc.hit
                 THEN rows3 \cup {ca.ptr["phi_ed"], el.ptr["phi_el"]}
                 ELSE rows3
  IN  IF keyerr
        THEN [res |-> res3, written |-> rows3, events |-> exp.events,
              ret |-> RetNone, err |-> "KeyError",
              sv |-> sv, svdot |-> svdot, flags |-> flags]
        ELSE [res |-> res4, written |-> rows4,
              events |-> Events(sim, t, current_A, voltage_V, power_W),
              ret |-> ReturnValue(flags, sdot_an, sdot_ca), err |-> "none",
              sv |-> sv, svdot |-> svdot, flags |-> flags]

(***************************************************************************)
(* State.                                                                  *)
(***************************************************************************)
VARIABLES
  sim,       \* the simulation: index maps of anode, electrolyte, cathode
  flags,     \* sim._flags: 'post' and 'BC'
  sv,        \* the caller's state vector y
  svdot,     \* the caller's derivative vector y'
  res,       \* the caller's residual buffer
  exp,       \* the experiment descriptor: mode, units, value, events
  last,      \* what the most recent residuals call was given and left behind
  sol_nt,    \* the number of saved times of the solution (len(sol.t))
  pc,        \* where the solution's post() stands: "idle" or "loop"
  li,        \* the loop index of postutils.post
  pout,      \* how the last post() handed control back
  postvars,  \* the keys of sol.postvars
  mem,       \* the arrays bandwidth works on, by name: sim._sv0, sim._svdot0
             \* and the arrays its local variables may refer to
  band,      \* bandwidth's position, locals (as references into mem), jac
  bouts,     \* what the bandwidth calls made so far returned
  pert,      \* the perturbation passes of bandwidth on their own: the arrays
             \* y and y', the pass, the component, the step last added
  mesh,      \* the construction of the index maps: position, working map
  ver,       \* CCSolution.verify: C_rate, the arrays of sol.postvars, result
  live,      \* the live simulation a solution was made from: its _flags and
             \* _sv0, and whether the solution's _sim is a copy of it
  soln,      \* the solution objects: their attributes, postvars, the _flags
             \* of their _sim, and the fill call that last gave them data
  dout,      \* what the last to_dict() or report() call handed back
  files,     \* the files slice_and_save may meet, and its last call
  atex       \* ExitHandler._registered and the functions atexit holds

resVars == <<sim, flags, sv, svdot, res, exp, last, sol_nt, pc, li, pout,
             postvars>>

bandVars == <<mem, band, bouts>>

extVars == <<pert, mesh, ver, live>>

objVars == <<soln, dout, files, atex>>

vars == <<resVars, bandVars, extVars, objVars>>

(***************************************************************************)
(* Inputs.                                                                 *)
(***************************************************************************)
\* sim._flags before and after any post()
NeutralFlags == [post |-> FALSE, BC |-> "None"]

\* the keys post() stores, postutils.py lines 46-53
PostKeys == {"res", "sdot_an", "sdot_ca", "i_ext", "A*h/m^2"}

\* the (mode, units) pairs residuals has a branch for
Supported ==
  {<<"current", "A">>, <<"current", "C">>, <<"voltage", "V">>,
   <<"power", "W">>}

\* pairs that no branch is meant for: an unknown mode, an unknown unit of
\* current, a voltage in C-rate
Unsupported ==
  {<<"resistance", "Ohm">>, <<"current", "mA">>, <<"voltage", "C">>}

\* a voltage experiment that carries no units entry
NoUnits == {<<"voltage", NoKey>>}

ModeUnits == Supported \cup Unsupported \cup NoUnits

Const(v) == [c0 |-> v, c1 |-> 0]

\* the descriptors the callers pass: for every pair a value that makes its
\* rows vanish in some state, a zero value, and one ramp in time
Descriptors ==
  {[mode |-> "current", units |-> "A", value |-> Const(0)],
   [mode |-> "current", units |-> "A", value |-> Const(192)],
   [mode |-> "current", units |-> "A", value |-> [c0 |-> 0, c1 |-> 2]],
   [mode |-> "current", units |-> "C", value |-> Const(0)],
   [mode |-> "current", units |-> "C", value |-> Const(48)],
   [mode |-> "voltage", units |-> "V", value |-> Const(4)],
   [mode |-> "power", units |-> "W", value |-> Const(768)],
   [mode |-> "resistance", units |-> "Ohm", value |-> Const(4)],
   [mode |-> "current", units |-> "mA", value |-> Const(192)],
   [mode |-> "voltage", units |-> "C", value |-> Const(4)],
   [mode |-> "voltage", units |-> NoKey, value |-> Const(4)]}

Times == {0, 3600}

\* saved times of a solution: 0 h, 1 h, 2 h, ...
SolT(i) == 3600 * (i - 1)

\* state vectors: a flat or a rising intercalation profile in both
\* particles, and two values for each potential
StateSet(s, PA, PE, PC, XS) ==
  {[i \in 0..(s.N - 1) |->
      IF i = s.an.ptr["phi_ed"] THEN pa
      ELSE IF i = s.el.ptr["phi_el"] THEN pe
      ELSE IF i = s.ca.ptr["phi_ed"] THEN pc0
      ELSE IF i = s.an.r_ptr[s.an.Nr] \/ i = s.ca.r_ptr[s.ca.Nr] THEN xsurf
      ELSE IF "hyst" \in DOMAIN s.an.ptr /\ i = s.an.ptr["hyst"]
        THEN EdParams("anode").hyst0
      ELSE IF "hyst" \in DOMAIN s.ca.ptr /\ i = s.ca.ptr["hyst"]
        THEN EdParams("cathode").hyst0
      ELSE 1] :
     pa \in PA, pe \in PE, pc0 \in PC, xsurf \in XS}

StateInputs(s) == StateSet(s, {0, 1}, {-1, 0}, {3, 4}, {1, 2})

\* the states of a cell at rest and of a cell delivering current
FewStates(s) == StateSet(s, {0}, {0}, {3, 4}, {1})

\* the derivative that goes with a state vector: at rest for a flat
\* profile, filling for a rising one
DotOf(s, y) ==
  [i \in 0..(s.N - 1) |->
     IF \E k \in 1..s.an.Nr : s.an.r_ptr[k] = i
       THEN y[s.an.r_ptr[s.an.Nr]] - 1
     ELSE IF \E k \in 1..s.ca.Nr : s.ca.r_ptr[k] = i
       THEN 1 - y[s.ca.r_ptr[s.ca.Nr]]
     ELSE 0]

ZerosLike(y) == [i \in DOMAIN y |-> 0]

NoCall ==
  [by |-> "none", t |-> 0, mode |-> NoKey, units |-> NoKey,
   value |-> [c0 |-> 0, c1 |-> 0],
   out |-> [res |-> <<>>, written |-> {}, events |-> NoEvents,
            ret |-> RetNone, err |-> "none", sv |-> <<>>, svdot |-> <<>>,
            flags |-> NeutralFlags]]

CallRecord(by, t, e, out) ==
  [by |-> by, t |-> t, mode |-> e.mode, units |-> e.units, value |-> e.value,
   out |-> out]

(***************************************************************************)
(* Solution objects.  An attribute is a slot never assigned, None, or a    *)
(* value; v holds the value and a placeholder of its type otherwise.       *)
(***************************************************************************)
Unset(dflt) == [is |-> "unset", v |-> dflt]

None(dflt) == [is |-> "None", v |-> dflt]

Some(v) == [is |-> "value", v |-> v]

SolIds == {1, 2}

\* the seven attributes a fill method assigns
FieldNames ==
  {"t", "y", "ydot", "success", "onroot", "message", "solvetime"}

Fields(s) == [k \in FieldNames |-> s[k]]

\* BaseSolution.__init__, lines 31-36: six attributes are set to None;
\* _solvetime is a slot of the class that __init__ never assigns
InitAttributes ==
  [t |-> None(<<>>), y |-> None(<<>>), ydot |-> None(<<>>),
   success |-> None(FALSE), onroot |-> None(FALSE), message |-> None(""),
   solvetime |-> Unset(0)]

\* no fill method has been called
NoFill == [by |-> "none", d |-> InitAttributes]

\* the data a set of postvars was computed from
DataOf(s) == [t |-> s.t, y |-> s.y, ydot |-> s.ydot]

\* postvars = {}
NoPostvars ==
  [keys |-> {}, sdot_an |-> <<>>, sdot_ca |-> <<>>, i_ext |-> <<>>,
   from |-> DataOf(InitAttributes)]

\* CCSolution.__init__, lines 13-16
CCSolutionInit ==
  [t |-> InitAttributes.t, y |-> InitAttributes.y,
   ydot |-> InitAttributes.ydot, success |-> InitAttributes.success,
   onroot |-> InitAttributes.onroot, message |-> InitAttributes.message,
   solvetime |-> InitAttributes.solvetime,
   postvars |-> NoPostvars, flags |-> NeutralFlags, fill |-> NoFill]

\* BaseSolution.ida_fill, lines 177-191
ida_fill(s, ret, solvetime) ==
  [s EXCEPT !.t = Some(ret.values.t), !.y = Some(ret.values.y),
            !.ydot = Some(ret.values.ydot), !.success = Some(ret.flag >= 0),
            !.onroot = Some(ret.roots_t.is # "None"),
            !.message = Some(ret.message), !.solvetime = Some(solvetime)]

\* BaseSolution.dict_fill, lines 219-225
dict_fill(s, d) ==
  [s EXCEPT !.t = d.t, !.y = d.y, !.ydot = d.ydot, !.success = d.success,
            !.onroot = d.onroot, !.message = d.message,
            !.solvetime = d.solvetime]

\* reading an attribute whose slot was never assigned raises
Readable(s, names) == \A k \in names : s[k].is # "unset"

\* a dictionary that reports the solver's status as the root status
to_dict_StatusForRoot(s) ==
  IF Readable(s, FieldNames)
    THEN [err |-> "none", d |-> [Fields(s) EXCEPT !.onroot = s.success]]
    ELSE [err |-> "AttributeError", d |-> InitAttributes]

\* BaseSolution.to_dict, lines 289-298
to_dict(s) ==
  IF Readable(s, FieldNames)
    THEN [err |-> "none", d |-> Fields(s)]
    ELSE [err |-> "AttributeError", d |-> InitAttributes]

\* BaseSolution.report, lines 253-264: the status lines it prints
report(s) ==
  IF Readable(s, {"solvetime", "success", "onroot", "message"})
    THEN [err |-> "none",
          d |-> [InitAttributes EXCEPT !.success = s.success,
                                       !.onroot = s.onroot,
                                       !.message = s.message,
                                       !.solvetime = s.solvetime]]
    ELSE [err |-> "AttributeError", d |-> InitAttributes]

\* no to_dict() or report() has been called
NoOut ==
  [op |-> "none", by |-> 0, err |-> "none", ret |-> "None",
   d |-> InitAttributes, of |-> InitAttributes]

\* the names slice_and_save is given: a stem, with or without the
\* extension .npz
FileNames == {[stem |-> "run", npz |-> e] : e \in BOOLEAN}

\* what a name holds: nothing, a file that was there before, or the arrays
\* the n-th slice_and_save call wrote
Absent == -1

Before == 0

NoSave ==
  [n |-> 0, savename |-> [stem |-> "", npz |-> FALSE], overwrite |-> FALSE,
   err |-> "none"]

\* the solutions just constructed, nothing saved, nothing registered
ObjIdle ==
  /\ soln = [k \in SolIds |-> CCSolutionInit]
  /\ dout = NoOut
  /\ files = [fs |-> [f \in FileNames |-> Absent], call |-> NoSave]
  /\ atex = [registered |-> <<>>, atexit |-> <<>>]

\* the descriptor a residuals call leaves behind: dae.py line 254 assigns
\* exp['events'] and no other key
ExpAfter(e, out) == [e EXCEPT !.events = out.events]

\* no bandwidth call has been made
BandIdle ==
  /\ mem = [o \in {} |-> <<>>]
  /\ band = [pc |-> "idle"]
  /\ bouts = <<>>

\* no live simulation is followed
NoLive ==
  [ref |-> "none", flags |-> NeutralFlags, sv0 |-> <<>>, sol_sv0 |-> <<>>,
   made |-> 0]

\* no perturbation pass on its own, the maps built, verify not called
ExtIdle ==
  /\ pert = [pc |-> "idle"]
  /\ mesh = [pc |-> "built"]
  /\ ver = [pc |-> "idle", C_rate |-> 0, stored |-> <<>>, ret |-> "none"]
  /\ live = NoLive

(***************************************************************************)
(* Spec: a simulation, its solver calling residuals, and a solution        *)
(* post-processing its saved trajectory.                                   *)
(***************************************************************************)
Init ==
  /\ sim \in {MakeSim(NrRes, NrRes, ha, hc) : ha \in BOOLEAN, hc \in BOOLEAN}
  /\ flags = NeutralFlags
  /\ sv \in FewStates(sim)
  /\ svdot = DotOf(sim, sv)
  /\ res = ZerosLike(sv)
  /\ exp = [mode |-> "current", units |-> "C", value |-> [c0 |-> 0, c1 |-> 0],
            events |-> NoEvents]
  /\ last = NoCall
  /\ sol_nt \in 0..MaxNt
  /\ pc = "idle"
  /\ li = 0
  /\ pout = "none"
  /\ postvars = {}
  /\ BandIdle
  /\ ObjIdle
  /\ ExtIdle

\* the solver (or any caller) evaluates residuals on its buffers, with the
\* descriptor set to (mode, units, value) and whatever sim._flags hold
SolverCall(t, d) ==
  /\ pc = "idle"
  /\ \E e \in {[exp EXCEPT !.mode = d.mode, !.units = d.units,
                           !.value = d.value]} :
     \E out \in {Residuals(t, sv, svdot, res, sim, flags, e)} :
         /\ res' = out.res
         /\ sv' = out.sv
         /\ svdot' = out.svdot
         /\ flags' = out.flags
         /\ exp' = [e EXCEPT !.events = out.events]
         /\ last' = CallRecord("solver", t, e, out)
  /\ UNCHANGED <<sim, sol_nt, pc, li, pout, postvars>>
  /\ UNCHANGED <<bandVars, objVars, extVars>>

\* CCSolution.post, line 33, and postutils.post, lines 18-29: the flags are
\* set and the loop over sol.t begins
PostBegin ==
  /\ pc = "idle"
  /\ flags' = [post |-> TRUE, BC |-> "current"]
  /\ pc' = "loop"
  /\ li' = 1
  /\ UNCHANGED <<sim, sv, svdot, res, exp, last, sol_nt, pout, postvars>>
  /\ UNCHANGED <<bandVars, objVars, extVars>>

\* postutils.post, lines 31-37: one pass of the loop.  residuals runs on a
\* fresh buffer and on post's own copy of the descriptor; its output is
\* unpacked into exactly three values, then exp['i_ext'] is read.  An error
\* raised here leaves post() and CCSolution.post at once.
PostIter ==
  /\ pc = "loop"
  /\ li <= sol_nt
  /\ \E out \in {Residuals(SolT(li), sv, svdot, ZerosLike(sv), sim, flags,
                            exp)} :
     LET unpacked == out.err = "none" /\ Len(out.ret.items) = 3
         has_i_ext == "i_ext" \in DOMAIN ExpAfter(exp, out)
         ok == unpacked /\ has_i_ext
     IN  /\ last' = CallRecord("post", SolT(li), exp, out)
         /\ flags' = out.flags
         /\ pc' = IF ok THEN "loop" ELSE "idle"
         /\ li' = IF ok THEN li + 1 ELSE li
         /\ pout' = IF ok THEN pout ELSE "raised"
  /\ UNCHANGED <<sim, sv, svdot, res, exp, sol_nt, postvars>>
  /\ UNCHANGED <<bandVars, objVars, extVars>>

\* postutils.post, lines 40-55, and CCSolution.post, lines 34-35: after the
\* loop the flags are reset and the post-processed variables stored
PostEnd ==
  /\ pc = "loop"
  /\ li > sol_nt
  /\ flags' = [post |-> FALSE, BC |-> "None"]
  /\ postvars' = PostKeys
  /\ pc' = "idle"
  /\ pout' = "returned"
  /\ UNCHANGED <<sim, sv, svdot, res, exp, last, sol_nt, li>>
  /\ UNCHANGED <<bandVars, objVars, extVars>>

(***************************************************************************)
(* SpecDae: residuals alone, called by the solver on a wider set of        *)
(* states.                                                                 *)
(***************************************************************************)
InitDae ==
  /\ sim \in {MakeSim(NrRes, NrRes, ha, hc) : ha \in BOOLEAN, hc \in BOOLEAN}
  /\ flags = NeutralFlags
  /\ sv \in StateInputs(sim)
  /\ svdot = DotOf(sim, sv)
  /\ res = ZerosLike(sv)
  /\ exp = [mode |-> "current", units |-> "C", value |-> Const(0),
            events |-> NoEvents]
  /\ last = NoCall
  /\ sol_nt = 0
  /\ pc = "idle"
  /\ li = 0
  /\ pout = "none"
  /\ postvars = {}
  /\ BandIdle
  /\ ObjIdle
  /\ ExtIdle

NextDae == \E t \in Times, d \in Descriptors : SolverCall(t, d)

SpecDae == InitDae /\ [][NextDae]_vars

(***************************************************************************)
(* bandwidth (dae.py).  Arrays live in mem and are referred to by name, so *)
(* that a copy and an alias are different things, as in Python.            *)
(***************************************************************************)
\* the floor of the step, 1e-6, is the unit of the fixed-point numbers
StepFloor == 1

\* the relative factor 1e-6 is a division by RelDen
RelDen == 1000000

\* lines 65 and 76: max(1e-6, 1e-6*y)
PerturbStep(y) == Max2(StepFloor, y \div RelDen)

\* an assignment that binds the name to the array itself
np_copy_Alias(m, src, fresh) == [ref |-> src, mem |-> m]

\* np.copy / ndarray.copy: a new array with the same contents
np_copy(m, src, fresh) == [ref |-> fresh, mem |-> (fresh :> m[src]) @@ m]

\* a[j] = val on the array that a refers to
SetItem(m, a, j, val) == [m EXCEPT ![a] = [@ EXCEPT ![j] = val]]

\* lines 45-49: the fake OCV experiment
BandExpr ==
  [mode |-> "current", units |-> "C", value |-> Const(0), events |-> NoEvents]

\* residuals(0, y, ydot, r, (sim, expr)) on the arrays y, ydot, r refer to
BandResiduals(m, y, ydot, r, s, fl) ==
  LET out == Residuals(0, m[y], m[ydot], m[r], s, fl, BandExpr)
      m1 == [m EXCEPT ![y] = out.sv]
      m2 == [m1 EXCEPT ![ydot] = out.svdot]
  IN  [mem |-> [m2 EXCEPT ![r] = out.res], flags |-> out.flags]

ZeroJac(N) == [i \in 0..(N - 1) |-> [j \in 0..(N - 1) |-> 0]]

\* what bandwidth must leave alone
SimSnapshot ==
  [sv0 |-> mem["sim._sv0"], svdot0 |-> mem["sim._svdot0"], flags |-> flags]

\* lines 42-58: the locals and the baseline residual
BandBegin ==
  /\ band.pc = "idle"
  /\ Len(bouts) < MaxRuns
  /\ \E c1 \in {np_copy(mem, "sim._sv0", "sv")} :
     \E c2 \in {np_copy(c1.mem, "sim._svdot0", "svdot")} :
     \E m3 \in {("res" :> ZerosLike(c2.mem[c1.ref])) @@ c2.mem} :
     \E r4 \in {BandResiduals(m3, c1.ref, c2.ref, "res", sim, flags)} :
     \E c5 \in {np_copy(r4.mem, "res", "res_0")} :
       /\ mem' = c5.mem
       /\ flags' = r4.flags
       /\ band' = [pc |-> "pass1", j |-> 0, sv |-> c1.ref, svdot |-> c2.ref,
                   res |-> "res", res_0 |-> c5.ref, dsv |-> "dsv",
                   dsvdot |-> "dsvdot", jac |-> ZeroJac(sim.N),
                   before |-> SimSnapshot]
  /\ UNCHANGED <<sim, bouts>>
  /\ UNCHANGED <<sv, svdot, res, exp, last, sol_nt, pc, li, pout, postvars>>
  /\ UNCHANGED <<extVars, objVars>>

\* lines 60-69: column j of the first pass, y[j] perturbed
BandColY ==
  /\ band.pc = "pass1"
  /\ \E c1 \in {np_copy(mem, band.sv, "dsv")} :
     \E c2 \in {np_copy(c1.mem, band.res, "res")} :
     \E c3 \in {np_copy(c2.mem, band.svdot, "svdot")} :
     \E m4 \in {SetItem(c3.mem, c1.ref, band.j,
                        c3.mem[band.sv][band.j]
                          + PerturbStep(c3.mem[band.sv][band.j]))} :
     \E r5 \in {BandResiduals(m4, c1.ref, c3.ref, c2.ref, sim, flags)} :
       LET dres == [i \in 0..(sim.N - 1) |->
                      r5.mem[band.res_0][i] - r5.mem[c2.ref][i]]
           last_j == band.j + 1 = sim.N
       IN  /\ mem' = r5.mem
           /\ flags' = r5.flags
           /\ band' = [band EXCEPT
                 !.dsv = c1.ref,
                 !.res = c2.ref,
                 !.svdot = c3.ref,
                 !.jac = [i \in 0..(sim.N - 1) |->
                            [@[i] EXCEPT ![band.j] = dres[i]]],
                 !.j = IF last_j THEN 0 ELSE band.j + 1,
                 !.pc = IF last_j THEN "pass2" ELSE "pass1"]
  /\ UNCHANGED <<sim, bouts>>
  /\ UNCHANGED <<sv, svdot, res, exp, last, sol_nt, pc, li, pout, postvars>>
  /\ UNCHANGED <<extVars, objVars>>

\* a second pass that assigns its column as the first pass does
iadd_Assign(a, d) == d

\* line 80: jac[:, j] += dres, for one entry
iadd(a, d) == a + d

\* lines 71-80: column j of the second pass, y'[j] perturbed
BandColYdot ==
  /\ band.pc = "pass2"
  /\ \E c1 \in {np_copy(mem, band.sv, "sv")} :
     \E c2 \in {np_copy(c1.mem, band.res, "res")} :
     \E c3 \in {np_copy(c2.mem, band.svdot, "dsvdot")} :
     \E m4 \in {SetItem(c3.mem, c3.ref, band.j,
                        c3.mem[band.svdot][band.j]
                          + PerturbStep(c3.mem[band.svdot][band.j]))} :
     \E r5 \in {BandResiduals(m4, c1.ref, c3.ref, c2.ref, sim, flags)} :
       LET dres == [i \in 0..(sim.N - 1) |->
                      r5.mem[band.res_0][i] - r5.mem[c2.ref][i]]
           last_j == band.j + 1 = sim.N
       IN  /\ mem' = r5.mem
           /\ flags' = r5.flags
           /\ band' = [band EXCEPT
                 !.sv = c1.ref,
                 !.res = c2.ref,
                 !.dsvdot = c3.ref,
                 !.jac = [i \in 0..(sim.N - 1) |->
                            [@[i] EXCEPT ![band.j] = iadd(@, dres[i])]],
                 !.j = IF last_j THEN 0 ELSE band.j + 1,
                 !.pc = IF last_j THEN "scan" ELSE "pass2"]
  /\ UNCHANGED <<sim, bouts>>
  /\ UNCHANGED <<sv, svdot, res, exp, last, sol_nt, pc, li, pout, postvars>>
  /\ UNCHANGED <<extVars, objVars>>

\* np.where(abs(jac[i, :i]) > 0)[0]: the columns left of the diagonal
l_inds(jac, i) == {j \in 0..(i - 1) : Abs(jac[i][j]) > 0}

\* i + np.where(abs(jac[i, i:]) > 0)[0]: the columns from the diagonal on
u_inds(jac, N, i) == {j \in i..(N - 1) : Abs(jac[i][j]) > 0}

\* the entry of l_inds nearest to the diagonal
l_inds_last(inds) == SetMax(inds)

\* l_inds[0]: np.where returns the indices in increasing order
l_inds_0(inds) == SetMin(inds)

\* u_inds[-1]
u_inds_last(inds) == SetMax(inds)

\* lines 83-94: the loop over the rows, from row i on
RECURSIVE ScanRows(_, _, _, _, _)
ScanRows(jac, N, i, lband, uband) ==
  IF i >= N
    THEN [lband |-> lband, uband |-> uband]
    ELSE LET li0 == l_inds(jac, i)
             ui0 == u_inds(jac, N, i)
             lb == IF Cardinality(li0) >= 1 /\ i - l_inds_0(li0) > lband
                     THEN i - l_inds_0(li0) ELSE lband
             ub == IF Cardinality(ui0) >= 1 /\ u_inds_last(ui0) - i > uband
                     THEN u_inds_last(ui0) - i ELSE uband
         IN  ScanRows(jac, N, i + 1, lb, ub)

\* lines 97-98: the pattern of zeros and ones
JPattern(jac, N) ==
  [i \in 0..(N - 1) |-> [j \in 0..(N - 1) |-> IF jac[i][j] # 0 THEN 1 ELSE 0]]

\* lines 82-100: the bands, the pattern, and the return; the locals die
BandReturn ==
  /\ band.pc = "scan"
  /\ LET b == ScanRows(band.jac, sim.N, 0, 0, 0)
     IN  bouts' = Append(bouts,
                    [lband |-> b.lband, uband |-> b.uband,
                     j_pat |-> JPattern(band.jac, sim.N),
                     before |-> band.before, after |-> SimSnapshot])
  /\ band' = [pc |-> "idle"]
  /\ mem' = [o \in {"sim._sv0", "sim._svdot0"} |-> mem[o]]
  /\ UNCHANGED <<sim, flags>>
  /\ UNCHANGED <<sv, svdot, res, exp, last, sol_nt, pc, li, pout, postvars>>
  /\ UNCHANGED <<extVars, objVars>>

\* SpecBand: a simulation at its initial state, and bandwidth called on it
InitBand ==
  /\ sim \in {MakeSim(NrRes, NrRes, ha, hc) : ha \in BOOLEAN, hc \in BOOLEAN}
  /\ flags = NeutralFlags
  /\ \E y \in StateInputs(sim) :
       mem = ("sim._sv0" :> y) @@ ("sim._svdot0" :> DotOf(sim, y))
  /\ band = [pc |-> "idle"]
  /\ bouts = <<>>
  /\ sv = <<>>
  /\ svdot = <<>>
  /\ res = <<>>
  /\ exp = BandExpr
  /\ last = NoCall
  /\ sol_nt = 0
  /\ pc = "idle"
  /\ li = 0
  /\ pout = "none"
  /\ postvars = {}
  /\ ExtIdle
  /\ ObjIdle

NextBand ==
  \/ BandBegin
  \/ BandColY
  \/ BandColYdot
  \/ BandReturn

SpecBand == InitBand /\ [][NextBand]_vars

(***************************************************************************)
(* SpecStep: the two perturbation passes of bandwidth on their own, on     *)
(* arrays whose components are fixed-point numbers with unit 1e-6, so that *)
(* 1e-6*y is y \div RelDen (the values are multiples of RelDen or smaller  *)
(* than RelDen in magnitude, where the floor 1e-6 is the larger anyway).   *)
(***************************************************************************)
\* the components: -2.0, 0.0, 1e-6, 3.0
PertValues == {-2 * RelDen, 0, 1, 3 * RelDen}

PertArrays == [1..PertLen -> PertValues]

InitStep ==
  /\ \E y \in PertArrays, yd \in PertArrays :
       pert = [pc |-> "pass1", j |-> 1, sv |-> y, svdot |-> yd, dsv |-> y,
               dsvdot |-> yd, at |-> 0, step |-> 0, n |-> 0]
  /\ mesh = [pc |-> "built"]
  /\ ver = [pc |-> "idle", C_rate |-> 0, stored |-> <<>>, ret |-> "none"]
  /\ live = NoLive
  /\ sim = MakeSim(NrRes, NrRes, FALSE, FALSE)
  /\ flags = NeutralFlags
  /\ sv = <<>>
  /\ svdot = <<>>
  /\ res = <<>>
  /\ exp = BandExpr
  /\ last = NoCall
  /\ sol_nt = 0
  /\ pc = "idle"
  /\ li = 0
  /\ pout = "none"
  /\ postvars = {}
  /\ BandIdle
  /\ ObjIdle

\* lines 61 and 65: dsv = np.copy(sv); dsv[j] = sv[j] + max(1e-6, 1e-6*sv[j])
PerturbY ==
  /\ pert.pc = "pass1"
  /\ LET y == pert.sv[pert.j]
         h == PerturbStep(y)
         last_j == pert.j = PertLen
     IN  pert' = [pert EXCEPT
           !.dsv = [pert.sv EXCEPT ![pert.j] = y + h],
           !.at = y,
           !.step = h,
           !.n = @ + 1,
           !.j = IF last_j THEN 1 ELSE pert.j + 1,
           !.pc = IF last_j THEN "pass2" ELSE "pass1"]
  /\ UNCHANGED <<resVars, bandVars, objVars, mesh, ver, live>>

\* lines 74 and 76: dsvdot = np.copy(svdot);
\* dsvdot[j] = svdot[j] + max(1e-6, 1e-6*svdot[j])
PerturbYdot ==
  /\ pert.pc = "pass2"
  /\ LET y == pert.svdot[pert.j]
         h == PerturbStep(y)
         last_j == pert.j = PertLen
     IN  pert' = [pert EXCEPT
           !.dsvdot = [pert.svdot EXCEPT ![pert.j] = y + h],
           !.at = y,
           !.step = h,
           !.n = @ + 1,
           !.j = IF last_j THEN 1 ELSE pert.j + 1,
           !.pc = IF last_j THEN "done" ELSE "pass2"]
  /\ UNCHANGED <<resVars, bandVars, objVars, mesh, ver, live>>

NextStep ==
  \/ PerturbY
  \/ PerturbYdot

SpecStep == InitStep /\ [][NextStep]_vars

(***************************************************************************)
(* SpecMesh: the construction of a simulation's index maps, one domain at  *)
(* a time, with the hysteresis option on either electrode, and of the      *)
(* initial state vector.                                                   *)
(***************************************************************************)
NoSim == [N |-> 0]

NoDomain == [size |-> 0]

\* the domain-local initial state of an electrode before its options write
\* to it: the intercalation fraction 1 everywhere, the potential phi0
LocalSv0(ed, phi0) ==
  [i \in 0..(ed.size - 1) |->
     IF i = ed.ptr["phi_ed"] - ed.ptr["start"] THEN phi0 ELSE 1]

\* an electrode's part of sim._sv0
EdSv0(ed, phi0) ==
  IF "hyst" \in DOMAIN ed.ptr
    THEN HystSv0(ed, LocalSv0(ed, phi0), EdParams(ed.name).hyst0)
    ELSE LocalSv0(ed, phi0)

InitMesh ==
  /\ \E na \in 1..MaxNr, nc \in 1..MaxNr, ha \in BOOLEAN, hc \in BOOLEAN :
       mesh = [pc |-> "base", dom |-> "anode", NrAn |-> na, NrCa |-> nc,
               hystAn |-> ha, hystCa |-> hc, pshift |-> 0,
               ptr |-> [k \in {} |-> 0],
               an |-> NoDomain, el |-> NoDomain, ca |-> NoDomain]
  /\ sim = NoSim
  /\ sv = <<>>
  /\ svdot = <<>>
  /\ res = <<>>
  /\ flags = NeutralFlags
  /\ exp = BandExpr
  /\ last = NoCall
  /\ sol_nt = 0
  /\ pc = "idle"
  /\ li = 0
  /\ pout = "none"
  /\ postvars = {}
  /\ BandIdle
  /\ ObjIdle
  /\ pert = [pc |-> "idle"]
  /\ ver = [pc |-> "idle", C_rate |-> 0, stored |-> <<>>, ret |-> "none"]
  /\ live = NoLive

\* Electrode.make_mesh: the scalar lookup of the domain being built
MeshBase ==
  /\ mesh.pc = "base"
  /\ LET Nr == IF mesh.dom = "anode" THEN mesh.NrAn ELSE mesh.NrCa
         hyst == IF mesh.dom = "anode" THEN mesh.hystAn ELSE mesh.hystCa
     IN  mesh' = [mesh EXCEPT !.ptr = BasePtr(Nr, mesh.pshift),
                              !.pc = IF hyst THEN "option" ELSE "final"]
  /\ UNCHANGED <<resVars, bandVars, objVars, pert, ver, live>>

\* Hysteresis.make_mesh(pshift) on the domain being built
MeshOption ==
  /\ mesh.pc = "option"
  /\ mesh' = [mesh EXCEPT
       !.ptr = HystMakeMesh(mesh.dom, mesh.ptr, mesh.pshift),
       !.pc = "final"]
  /\ UNCHANGED <<resVars, bandVars, objVars, pert, ver, live>>

\* the domain's map is finished; after the anode comes the electrolyte's
\* single index and then the cathode
MeshFinal ==
  /\ mesh.pc = "final"
  /\ LET Nr == IF mesh.dom = "anode" THEN mesh.NrAn ELSE mesh.NrCa
         ed == FinalMesh(mesh.dom, Nr, mesh.pshift, mesh.ptr)
     IN  mesh' = IF mesh.dom = "anode"
           THEN [mesh EXCEPT !.an = ed,
                             !.el = [ptr |-> ("phi_el" :> ed.size)],
                             !.pshift = ed.size + 1,
                             !.dom = "cathode",
                             !.pc = "base"]
           ELSE [mesh EXCEPT !.ca = ed, !.pc = "sv0"]
  /\ UNCHANGED <<resVars, bandVars, objVars, pert, ver, live>>

\* the simulation is assembled and sim._sv0 filled, domain by domain, the
\* hysteresis option writing its hyst0 through Hysteresis.sv0
MeshSv0 ==
  /\ mesh.pc = "sv0"
  /\ LET an == mesh.an
         ca == mesh.ca
         N == an.size + 1 + ca.size
         a0 == EdSv0(an, 0)
         c0 == EdSv0(ca, 4)
     IN  /\ sim' = [an |-> an, el |-> mesh.el, ca |-> ca, N |-> N, t0 |-> 0]
         /\ sv' = [i \in 0..(N - 1) |->
                     IF i < an.size THEN a0[i]
                     ELSE IF i = an.size THEN 0
                     ELSE c0[i - ca.ptr["start"]]]
  /\ mesh' = [mesh EXCEPT !.pc = "done"]
  /\ UNCHANGED <<flags, svdot, res, exp, last, sol_nt, pc, li, pout, postvars>>
  /\ UNCHANGED <<bandVars, objVars, pert, ver, live>>

NextMesh ==
  \/ MeshBase
  \/ MeshOption
  \/ MeshFinal
  \/ MeshSv0

SpecMesh == InitMesh /\ [][NextMesh]_vars

(***************************************************************************)
(* SpecCC: a constant-current solution: the solver's residuals calls in    *)
(* current mode, and CCSolution.verify on the arrays of sol.postvars.      *)
(***************************************************************************)
\* the current-mode descriptors, and one more C-rate
CCDescriptors ==
  {d \in Descriptors : d.mode = "current" /\ d.units \in {"A", "C"}}
    \cup {[mode |-> "current", units |-> "C", value |-> Const(192)]}

\* exp['C_rate']: a discharge, a charge, and rest
CRates == {400, -400, 0}

\* one saved time of sol.postvars: exact for C_rate 400, on the edge of the
\* 0.5% band, 1% off at the anode, exact for C_rate -400
SavedTimes ==
  {[i_ext |-> 800, sdot_an |-> -200, sdot_ca |-> 200],
   [i_ext |-> 796, sdot_an |-> -199, sdot_ca |-> 201],
   [i_ext |-> 800, sdot_an |-> -198, sdot_ca |-> 200],
   [i_ext |-> -800, sdot_an |-> 200, sdot_ca |-> -200]}

\* line 54: i_ext = exp['C_rate'] * sim.bat.cap / sim.bat.area
VerifyApplied(C_rate) == (C_rate * bat.cap) \div bat.area

\* lines 57-58: the currents of the two electrodes at one saved time
VerifyIan(p) ==
  -p.sdot_an * EdParams("anode").A_s * EdParams("anode").thick * c.F

VerifyIca(p) ==
  p.sdot_ca * EdParams("cathode").A_s * EdParams("cathode").thick * c.F

\* i / i_ext >= 0.995, as floating-point division decides it: a zero i_ext
\* gives +inf, -inf or nan
RatioAtLeast(i, i_ext) ==
  IF i_ext > 0 THEN 1000 * i >= 995 * i_ext
  ELSE IF i_ext < 0 THEN 1000 * i <= 995 * i_ext
  ELSE i > 0

\* i / i_ext <= 1.005
RatioAtMost(i, i_ext) ==
  IF i_ext > 0 THEN 1000 * i <= 1005 * i_ext
  ELSE IF i_ext < 0 THEN 1000 * i >= 1005 * i_ext
  ELSE i < 0

\* lines 60-66 and 90: all(checks); np.min and np.max range over the saved
\* times
VerifyChecks(stored, i_ext) ==
  \A k \in 1..Len(stored) :
    /\ RatioAtLeast(stored[k].i_ext, i_ext)
    /\ RatioAtMost(stored[k].i_ext, i_ext)
    /\ RatioAtLeast(VerifyIan(stored[k]), i_ext)
    /\ RatioAtMost(VerifyIan(stored[k]), i_ext)
    /\ RatioAtLeast(VerifyIca(stored[k]), i_ext)
    /\ RatioAtMost(VerifyIca(stored[k]), i_ext)

\* lines 52-90: what verify returns; np.min of an empty array raises
VerifyResult(stored, C_rate) ==
  IF Len(stored) = 0 THEN "raised"
  ELSE IF VerifyChecks(stored, VerifyApplied(C_rate)) THEN "True"
  ELSE "False"

InitCC ==
  /\ sim = MakeSim(NrRes, NrRes, FALSE, FALSE)
  /\ flags = NeutralFlags
  /\ sv \in StateSet(sim, {0}, {0}, {3, 4}, {1, 2})
  /\ svdot = DotOf(sim, sv)
  /\ res = ZerosLike(sv)
  /\ exp = [mode |-> "current", units |-> "C", value |-> Const(0),
            events |-> NoEvents]
  /\ last = NoCall
  /\ sol_nt \in 0..MaxNt
  /\ pc = "idle"
  /\ li = 0
  /\ pout = "none"
  /\ postvars \in {{}, PostKeys}
  /\ \E r \in CRates :
     \E a \in (IF postvars = {} THEN {<<>>} ELSE [1..sol_nt -> SavedTimes]) :
       ver = [pc |-> "idle", C_rate |-> r, stored |-> a, ret |-> "none"]
  /\ BandIdle
  /\ ObjIdle
  /\ pert = [pc |-> "idle"]
  /\ mesh = [pc |-> "built"]
  /\ live = NoLive

\* verify on a solution whose postvars are stored: lines 37-90
VerifyStored ==
  /\ ver.pc = "idle"
  /\ pc = "idle"
  /\ postvars # {}
  /\ ver' = [ver EXCEPT !.ret = VerifyResult(ver.stored, ver.C_rate)]
  /\ UNCHANGED <<resVars, bandVars, objVars, pert, mesh, live>>

\* verify on a solution without postvars, lines 46-50: self.post() begins
\* (CCSolution.post line 33, postutils.post lines 18-29)
VerifyPost ==
  /\ ver.pc = "idle"
  /\ pc = "idle"
  /\ postvars = {}
  /\ flags' = [post |-> TRUE, BC |-> "current"]
  /\ pc' = "loop"
  /\ li' = 1
  /\ ver' = [ver EXCEPT !.pc = "post", !.ret = "none"]
  /\ UNCHANGED <<sim, sv, svdot, res, exp, last, sol_nt, pout, postvars>>
  /\ UNCHANGED <<bandVars, objVars, pert, mesh, live>>

\* self.post() has handed control back: its error leaves verify too;
\* otherwise the checks run on what post stored, the arrays of a trajectory
\* whose loop ran to its end
VerifyResume ==
  /\ ver.pc = "post"
  /\ pc = "idle"
  /\ ver' = [ver EXCEPT
       !.pc = "idle",
       !.ret = IF pout = "raised" THEN "raised"
               ELSE VerifyResult(ver.stored, ver.C_rate)]
  /\ UNCHANGED <<resVars, bandVars, objVars, pert, mesh, live>>

NextCC ==
  \/ \E t \in Times, d \in CCDescriptors : SolverCall(t, d)
  \/ VerifyStored
  \/ VerifyPost
  \/ PostIter
  \/ PostEnd
  \/ VerifyResume

SpecCC == InitCC /\ [][NextCC]_vars

(***************************************************************************)
(* SpecSol: a live simulation, the solutions made from it, and their       *)
(* post().  A solution's _sim is a reference: to a copy of the live        *)
(* simulation, or to the live simulation itself.  flags holds the _flags   *)
(* of the object the solution refers to.                                   *)
(***************************************************************************)
\* Simulation.copy(): a new object with the contents of the original
SimCopy(l) == [ref |-> "copy", flags |-> l.flags, sv0 |-> l.sv0]

\* a constructor that keeps the reference it was given: self._sim = sim
BaseSolutionInit_KeepsReference(l) ==
  [ref |-> "same", flags |-> l.flags, sv0 |-> l.sv0]

\* BaseSolution.__init__, line 29: self._sim = sim.copy()
BaseSolutionInit(l) == SimCopy(l)

\* the _flags of the live simulation
LiveFlags == IF live.ref = "same" THEN flags ELSE live.flags

InitSol ==
  /\ sim \in {MakeSim(NrRes, NrRes, ha, hc) : ha \in BOOLEAN, hc \in BOOLEAN}
  /\ sv \in FewStates(sim)
  /\ svdot = DotOf(sim, sv)
  /\ res = ZerosLike(sv)
  /\ live = [NoLive EXCEPT !.sv0 = sv]
  /\ flags = NeutralFlags
  /\ exp = [mode |-> "current", units |-> "C", value |-> Const(0),
            events |-> NoEvents]
  /\ last = NoCall
  /\ sol_nt \in 0..MaxNt
  /\ pc = "nosol"
  /\ li = 0
  /\ pout = "none"
  /\ postvars = {}
  /\ BandIdle
  /\ ObjIdle
  /\ pert = [pc |-> "idle"]
  /\ mesh = [pc |-> "built"]
  /\ ver = [pc |-> "idle", C_rate |-> 0, stored |-> <<>>, ret |-> "none"]

\* CCSolution.__init__ on the live simulation: BaseSolution.__init__ stores
\* its _sim, and postvars starts empty; an earlier solution is let go
SolutionInit ==
  /\ pc \in {"nosol", "idle"}
  /\ live.made < MaxRuns
  /\ \E o \in {BaseSolutionInit([flags |-> LiveFlags, sv0 |-> live.sv0])} :
       /\ live' = [live EXCEPT !.ref = o.ref,
                               !.flags = LiveFlags,
                               !.sol_sv0 = o.sv0,
                               !.made = @ + 1]
       /\ flags' = o.flags
  /\ pc' = "idle"
  /\ li' = 0
  /\ pout' = "none"
  /\ postvars' = {}
  /\ UNCHANGED <<sim, sv, svdot, res, exp, last, sol_nt>>
  /\ UNCHANGED <<bandVars, objVars, pert, mesh, ver>>

NextSol ==
  \/ SolutionInit
  \/ PostBegin
  \/ PostIter
  \/ PostEnd

SpecSol == InitSol /\ [][NextSol]_vars

(***************************************************************************)
(* SpecFill: two solutions, filled from the solver's return or from a      *)
(* dictionary, and read back with to_dict() and report().                  *)
(***************************************************************************)
\* a saved trajectory of nt times that stays in the state y0
Traj(nt, y0) ==
  [t |-> [i \in 1..nt |-> SolT(i)], y |-> [i \in 1..nt |-> y0],
   ydot |-> [i \in 1..nt |-> DotOf(sim, y0)]]

Trajectories == {Traj(nt, y0) : nt \in 0..MaxNt, y0 \in FewStates(sim)}

\* what the IDA solver returns after MaxNt saved times: a success, a stop
\* on a root, a failure
IdaReturns ==
  {[values |-> tr, flag |-> o.flag, roots_t |-> o.roots_t,
    message |-> o.message] :
     tr \in {Traj(MaxNt, y0) : y0 \in FewStates(sim)},
     o \in {[flag |-> 0, roots_t |-> None(0), message |-> "Success"],
            [flag |-> 1, roots_t |-> Some(3600), message |-> "Root found"],
            [flag |-> -1, roots_t |-> None(0), message |-> "Failure"]}}

\* dictionaries with the seven keys, as loaded from storage
InputDicts ==
  {[t |-> Some(tr.t), y |-> Some(tr.y), ydot |-> Some(tr.ydot),
    success |-> Some(TRUE), onroot |-> Some(FALSE),
    message |-> Some("Loaded"), solvetime |-> Some(2)] :
     tr \in Trajectories}

\* the dictionary the last to_dict() returned, if it returned one
ReturnedDicts ==
  IF dout.op = "to_dict" /\ dout.err = "none" THEN {dout.d} ELSE {}

InitFill ==
  /\ sim = MakeSim(NrRes, NrRes, FALSE, FALSE)
  /\ flags = NeutralFlags
  /\ sv \in StateSet(sim, {0}, {0}, {3}, {1})
  /\ svdot = DotOf(sim, sv)
  /\ res = ZerosLike(sv)
  /\ exp = [mode |-> "current", units |-> "C", value |-> Const(0),
            events |-> NoEvents]
  /\ last = NoCall
  /\ sol_nt = 0
  /\ pc = "idle"
  /\ li = 0
  /\ pout = "none"
  /\ postvars = {}
  /\ BandIdle
  /\ ObjIdle
  /\ ExtIdle

\* sol.ida_fill(ret, solvetime) on solution k
IdaFill(k, ret, solvetime) ==
  /\ soln' = [soln EXCEPT ![k] =
       [ida_fill(@, ret, solvetime) EXCEPT
          !.fill = [by |-> "ida_fill", d |-> InitAttributes]]]
  /\ UNCHANGED <<dout, files, atex>>
  /\ UNCHANGED <<resVars, bandVars, extVars>>

\* sol.dict_fill(d) on solution k
DictFill(k, d) ==
  /\ soln' = [soln EXCEPT ![k] =
       [dict_fill(@, d) EXCEPT !.fill = [by |-> "dict_fill", d |-> d]]]
  /\ UNCHANGED <<dout, files, atex>>
  /\ UNCHANGED <<resVars, bandVars, extVars>>

\* sol.to_dict() on solution k; of keeps the attributes as they stood
ToDict(k) ==
  /\ \E o \in {to_dict(soln[k])} :
       dout' = [op |-> "to_dict", by |-> k, err |-> o.err, ret |-> "dict",
                d |-> o.d, of |-> Fields(soln[k])]
  /\ UNCHANGED <<soln, files, atex>>
  /\ UNCHANGED <<resVars, bandVars, extVars>>

\* sol.report() on solution k
Report(k) ==
  /\ \E o \in {report(soln[k])} :
       dout' = [op |-> "report", by |-> k, err |-> o.err, ret |-> "None",
                d |-> o.d, of |-> Fields(soln[k])]
  /\ UNCHANGED <<soln, files, atex>>
  /\ UNCHANGED <<resVars, bandVars, extVars>>

NextFill ==
  \/ \E k \in SolIds, ret \in IdaReturns : IdaFill(k, ret, 1)
  \/ \E k \in SolIds, d \in InputDicts \cup ReturnedDicts : DictFill(k, d)
  \/ \E k \in SolIds : ToDict(k)
  \/ \E k \in SolIds : Report(k)

SpecFill == InitFill /\ [][NextFill]_vars

(***************************************************************************)
(* SpecLife: one solution through ida_fill, dict_fill, post, verify, plot  *)
(* and slice_and_save, and the files slice_and_save meets.                 *)
(***************************************************************************)
MaxSaves == 2

\* the arrays post() has filled so far
NoRows == [sdot_an |-> <<>>, sdot_ca |-> <<>>, i_ext |-> <<>>]

\* the one element of a singleton
Only(S) == CHOOSE x \in S : TRUE

RECURSIVE PostLoop(_, _, _)
\* postutils.post, lines 35-37, at the i-th saved time: the output of
\* residuals is unpacked into three values, then exp['i_ext'] is read
PostUnpack(s, i, rows, out) ==
  IF out.err # "none" THEN [err |-> out.err, rows |-> rows]
  ELSE IF Len(out.ret.items) # 3 THEN [err |-> "ValueError", rows |-> rows]
  ELSE IF "i_ext" \notin DOMAIN ExpAfter(exp, out)
    THEN [err |-> "KeyError", rows |-> rows]
  ELSE PostLoop(s, i + 1,
         [sdot_an |-> Append(rows.sdot_an, out.ret.sdot_an),
          sdot_ca |-> Append(rows.sdot_ca, out.ret.sdot_ca),
          i_ext |-> Append(rows.i_ext, ExpAfter(exp, out)["i_ext"])])

\* postutils.post, lines 31-37, from the i-th saved time on: residuals is
\* called on a fresh buffer with the flags post() has set
PostLoop(s, i, rows) ==
  IF i > Len(s.t.v) THEN [err |-> "none", rows |-> rows]
  ELSE Only({PostUnpack(s, i, rows, out) :
               out \in {Residuals(s.t.v[i], s.y.v[i], s.ydot.v[i],
                                  ZerosLike(s.y.v[i]), sim,
                                  [post |-> TRUE, BC |-> "current"], exp)}})

\* postutils.post, lines 40-55, and CCSolution.post, lines 34-35: an error
\* in the loop leaves the flags as they were set; otherwise they are reset
\* and the arrays stored
PostStore(s, o) ==
  IF o.err # "none"
    THEN [err |-> o.err,
          s |-> [s EXCEPT !.flags = [post |-> TRUE, BC |-> "current"]]]
    ELSE [err |-> "none",
          s |-> [s EXCEPT
             !.flags = [post |-> FALSE, BC |-> "None"],
             !.postvars = [keys |-> PostKeys,
                           sdot_an |-> o.rows.sdot_an,
                           sdot_ca |-> o.rows.sdot_ca,
                           i_ext |-> o.rows.i_ext,
                           from |-> DataOf(s)]]]

\* CCSolution.post, lines 33-35, around postutils.post, lines 18-55: the
\* solution after the call, and the error that left it, if any.  t = None
\* cannot be iterated over.
post(s) ==
  IF s.t.is # "value" \/ s.y.is # "value" \/ s.ydot.is # "value"
    THEN [err |-> "TypeError",
          s |-> [s EXCEPT !.flags = [post |-> TRUE, BC |-> "current"]]]
    ELSE Only({PostStore(s, o) : o \in {PostLoop(s, 1, NoRows)}})

\* if len(self.postvars) == 0: self.post()
PostIfEmpty(s) ==
  IF s.postvars.keys = {} THEN post(s) ELSE [err |-> "none", s |-> s]

\* the arrays of postvars, one record per saved time
StoredRows(pv) ==
  [i \in 1..Len(pv.i_ext) |->
     [i_ext |-> pv.i_ext[i], sdot_an |-> pv.sdot_an[i],
      sdot_ca |-> pv.sdot_ca[i]]]

\* CCSolution.verify, lines 50-90, once postvars are there
VerifyChecked(p, C_rate) ==
  IF p.err # "none" THEN [err |-> p.err, s |-> p.s, ret |-> "None"]
  ELSE IF Len(p.s.postvars.i_ext) = 0
    THEN [err |-> "ValueError", s |-> p.s, ret |-> "None"]
  ELSE [err |-> "none", s |-> p.s,
        ret |-> VerifyResult(StoredRows(p.s.postvars), C_rate)]

\* CCSolution.verify, lines 47-90
verify(s, C_rate) ==
  Only({VerifyChecked(p, C_rate) : p \in {PostIfEmpty(s)}})

\* postutils.current, lines 66-76: sol.t cannot be plotted against an
\* array of another length
CurrentPlotted(p) ==
  IF p.err # "none" THEN [err |-> p.err, s |-> p.s, ret |-> "None"]
  ELSE IF p.s.t.is # "value" \/ Len(p.s.t.v) # Len(p.s.postvars.i_ext)
    THEN [err |-> "ValueError", s |-> p.s, ret |-> "None"]
  ELSE [err |-> "none", s |-> p.s, ret |-> "None"]

\* BaseSolution.plot('current'), lines 302-304, and postutils.current,
\* lines 63-76
plot_current(s) == Only({CurrentPlotted(p) : p \in {PostIfEmpty(s)}})

\* np.savez appends .npz to a name that lacks it
np_savez_name(savename) == [savename EXCEPT !.npz = TRUE]

\* BaseSolution.slice_and_save, lines 375-397, once postvars are there:
\* os.path.exists looks for savename as given, np.savez writes
Saved(p, fs, savename, overwrite, n) ==
  IF p.err # "none" THEN [err |-> p.err, s |-> p.s, fs |-> fs]
  ELSE IF fs[savename] # Absent /\ ~overwrite
    THEN [err |-> "Exception", s |-> p.s, fs |-> fs]
  ELSE IF p.s.y.is # "value"
    THEN [err |-> "TypeError", s |-> p.s, fs |-> fs]
  ELSE [err |-> "none", s |-> p.s,
        fs |-> [fs EXCEPT ![np_savez_name(savename)] = n]]

\* BaseSolution.slice_and_save, lines 372-397, as its n-th call
slice_and_save(s, fs, savename, overwrite, n) ==
  Only({Saved(p, fs, savename, overwrite, n) : p \in {PostIfEmpty(s)}})

InitLife ==
  /\ sim = MakeSim(NrRes, NrRes, FALSE, FALSE)
  /\ flags = NeutralFlags
  /\ sv \in StateSet(sim, {0}, {0}, {3}, {1})
  /\ svdot = DotOf(sim, sv)
  /\ res = ZerosLike(sv)
  /\ exp = [mode |-> "current", units |-> "C", value |-> Const(0),
            events |-> NoEvents]
  /\ last = NoCall
  /\ sol_nt = 0
  /\ pc = "idle"
  /\ li = 0
  /\ pout = "none"
  /\ postvars = {}
  /\ BandIdle
  /\ pert = [pc |-> "idle"]
  /\ mesh = [pc |-> "built"]
  /\ ver = [pc |-> "idle", C_rate |-> 0, stored |-> <<>>, ret |-> "none"]
  /\ live = NoLive
  /\ soln = [k \in SolIds |-> CCSolutionInit]
  /\ dout = NoOut
  /\ \E fs \in [FileNames -> {Absent, Before}] :
       files = [fs |-> fs, call |-> NoSave]
  /\ atex = [registered |-> <<>>, atexit |-> <<>>]

\* sol.post() on solution k
Post(k) ==
  /\ \E o \in {post(soln[k])} :
       /\ soln' = [soln EXCEPT ![k] = o.s]
       /\ dout' = [NoOut EXCEPT !.op = "post", !.by = k, !.err = o.err]
  /\ UNCHANGED <<files, atex>>
  /\ UNCHANGED <<resVars, bandVars, extVars>>

\* sol.verify() on solution k
Verify(k) ==
  /\ \E o \in {verify(soln[k], ver.C_rate)} :
       /\ soln' = [soln EXCEPT ![k] = o.s]
       /\ dout' = [NoOut EXCEPT !.op = "verify", !.by = k, !.err = o.err,
                                !.ret = o.ret]
  /\ UNCHANGED <<files, atex>>
  /\ UNCHANGED <<resVars, bandVars, extVars>>

\* sol.plot('current') on solution k
Plot(k) ==
  /\ \E o \in {plot_current(soln[k])} :
       /\ soln' = [soln EXCEPT ![k] = o.s]
       /\ dout' = [NoOut EXCEPT !.op = "plot", !.by = k, !.err = o.err]
  /\ UNCHANGED <<files, atex>>
  /\ UNCHANGED <<resVars, bandVars, extVars>>

\* sol.slice_and_save(savename, overwrite) on solution k
SliceAndSave(k, savename, overwrite) ==
  /\ files.call.n < MaxSaves
  /\ \E o \in {slice_and_save(soln[k], files.fs, savename, overwrite,
                              files.call.n + 1)} :
       /\ soln' = [soln EXCEPT ![k] = o.s]
       /\ files' = [fs |-> o.fs,
                    call |-> [n |-> files.call.n + 1, savename |-> savename,
                              overwrite |-> overwrite, err |-> o.err]]
  /\ UNCHANGED <<dout, atex>>
  /\ UNCHANGED <<resVars, bandVars, extVars>>

NextLife ==
  \/ \E ret \in IdaReturns : IdaFill(1, ret, 1)
  \/ \E d \in InputDicts : DictFill(1, d)
  \/ Post(1)
  \/ Verify(1)
  \/ Plot(1)
  \/ \E f \in FileNames, o \in BOOLEAN : SliceAndSave(1, f, o)

SpecLife == InitLife /\ [][NextLife]_vars

(***************************************************************************)
(* SpecExit: ExitHandler.register_atexit called with functions, over and   *)
(* over.                                                                   *)
(***************************************************************************)
MaxReg == 4

\* the functions callers register
Funcs == {"plt.show", "fig.show", "close"}

\* func in cls._registered
InList(func, registered) == \E i \in 1..Len(registered) : registered[i] = func

\* ExitHandler.register_atexit, lines 21-22: the class list is read, never
\* written; atexit keeps every function it is handed, in order
register_atexit(a, func) ==
  IF ~InList(func, a.registered)
    THEN [a EXCEPT !.atexit = Append(@, func)]
    ELSE a

InitExit ==
  /\ sim = MakeSim(NrRes, NrRes, FALSE, FALSE)
  /\ flags = NeutralFlags
  /\ sv \in StateSet(sim, {0}, {0}, {3}, {1})
  /\ svdot = DotOf(sim, sv)
  /\ res = ZerosLike(sv)
  /\ exp = [mode |-> "current", units |-> "C", value |-> Const(0),
            events |-> NoEvents]
  /\ last = NoCall
  /\ sol_nt = 0
  /\ pc = "idle"
  /\ li = 0
  /\ pout = "none"
  /\ postvars = {}
  /\ BandIdle
  /\ ObjIdle
  /\ ExtIdle

\* ExitHandler.register_atexit(func)
RegisterAtexit(func) ==
  /\ Len(atex.atexit) < MaxReg
  /\ atex' = register_atexit(atex, func)
  /\ UNCHANGED <<soln, dout, files>>
  /\ UNCHANGED <<resVars, bandVars, extVars>>

NextExit == \E func \in Funcs : RegisterAtexit(func)

SpecExit == InitExit /\ [][NextExit]_vars

Next ==
  \/ \E t \in Times, d \in Descriptors : SolverCall(t, d)
  \/ PostBegin
  \/ PostIter
  \/ PostEnd

Spec == Init /\ [][Next]_vars

(***************************************************************************)
(* Claims about residuals and post.                                        *)
(***************************************************************************)
Called == last.by # "none"

RowA == sim.ca.ptr["phi_ed"]

RowB == sim.el.ptr["phi_el"]

\* C1: for each supported (mode, units) pair the dispatch writes exactly one
\* (Row A, Row B) pair, and an unsupported pair is rejected: the call raises
\* instead of returning as if the pair had been accepted.
C1_DispatchTotalOrRejected ==
  Called =>
    /\ <<last.mode, last.units>> \in Supported =>
         /\ last.out.err = "none"
         /\ {RowA, RowB} \subseteq last.out.written
    /\ <<last.mode, last.units>> \in Unsupported => last.out.err # "none"

\* C2: for every supported pair and every index map, the hysteresis one
\* included, a call assigns every one of the N entries of res and keeps the
\* lengths of sv, svdot and res.
C2_ResFullyWritten ==
  (Called /\ <<last.mode, last.units>> \in Supported) =>
    /\ last.out.written = 0..(sim.N - 1)
    /\ DOMAIN last.out.res = 0..(sim.N - 1)
    /\ DOMAIN last.out.sv = 0..(sim.N - 1)
    /\ DOMAIN last.out.svdot = 0..(sim.N - 1)

\* C3: with sim._flags['post'] set, residuals returns the three items
\* (res, sdot_an, sdot_ca) in this order; with no flag set it returns None.
C3_PostReturnsTriple ==
  (Called /\ last.out.err = "none") =>
    /\ last.out.flags.post =>
         /\ last.out.ret.kind = "tuple"
         /\ last.out.ret.items = <<"res", "sdot_an", "sdot_ca">>
    /\ last.out.flags = NeutralFlags => last.out.ret.kind = "None"

\* the same call on a fresh buffer, with neutral flags and a descriptor that
\* carries no events of an earlier call
FreshCall ==
  Residuals(last.t, sv, svdot, ZerosLike(sv), sim, NeutralFlags,
            [mode |-> last.mode, units |-> last.units, value |-> last.value,
             events |-> NoEvents])

\* C4: for fixed (t, sv, svdot, parameters, descriptor) the rows a call
\* assigns and the values it assigns to them are those of the same call made
\* with neutral flags on a fresh buffer: neither sim._flags['post'], nor
\* sim._flags['BC'], nor any earlier call changes them.
C4_ResIndependentOfFlagsAndHistory ==
  Called =>
    /\ last.out.written = FreshCall.written
    /\ \A i \in last.out.written : last.out.res[i] = FreshCall.res[i]

\* a voltage-mode call made by the solver while the flags say post, current
C4_Witness ==
  /\ last.by = "solver"
  /\ last.mode = "voltage"
  /\ last.units = "V"
  /\ last.out.flags = [post |-> TRUE, BC |-> "current"]
  /\ \E i \in DOMAIN res : res[i] # 0

\* C5: whenever post() has handed control back, by returning or by raising,
\* sim._flags['post'] is False and sim._flags['BC'] is None.
C5_FlagsNeutralAfterPost ==
  (pc = "idle" /\ pout # "none") => flags = NeutralFlags

(***************************************************************************)
(* Claims about bandwidth.                                                 *)
(***************************************************************************)
\* the distances below / from the diagonal of the entries the pattern marks
LowerDistances(o, N) ==
  {d \in 1..N : \E i \in 0..(N - 1), j \in 0..(N - 1) :
                  j < i /\ o.j_pat[i][j] = 1 /\ d = i - j}

UpperDistances(o, N) ==
  {d \in 0..N : \E i \in 0..(N - 1), j \in 0..(N - 1) :
                  j >= i /\ o.j_pat[i][j] = 1 /\ d = j - i}

\* C6: every entry the returned pattern marks lies within the returned
\* bands, i - j <= L and j - i <= U, and the bands are tight: L is the
\* largest distance to a marked entry left of the diagonal, U the largest
\* distance to a marked entry on or right of it, each 0 when there is none.
C6_BandsBoundPatternTightly ==
  \A k \in 1..Len(bouts) :
    LET o == bouts[k]
        N == sim.N
    IN  /\ \A i \in 0..(N - 1), j \in 0..(N - 1) :
             o.j_pat[i][j] = 1 => (i - j <= o.lband /\ j - i <= o.uband)
        /\ o.lband = SetMax(LowerDistances(o, N) \cup {0})
        /\ o.uband = SetMax(UpperDistances(o, N) \cup {0})

\* a returned pattern with entries on both sides, at different distances
C6_Witness ==
  /\ Len(bouts) >= 1
  /\ bouts[1].lband >= 2
  /\ bouts[1].uband >= 1
  /\ Cardinality(LowerDistances(bouts[1], sim.N)) >= 2

\* C7: the step added to component j of y, and in the second pass of y', is
\* max(1e-6, 1e-6*|y[j]|) for every value of the component, negative ones
\* included, and it is never zero.
C7_StepIsFlooredRelativeMagnitude ==
  pert.pc # "idle" /\ pert.n > 0 =>
    /\ pert.step = Max2(StepFloor, Abs(pert.at) \div RelDen)
    /\ pert.step # 0

\* C8: two bandwidth calls in a row on an unchanged simulation return the
\* same (L, U, pattern), and each call leaves sim._sv0, sim._svdot0 and
\* sim._flags as they were when it began.
C8_BandwidthRepeatableAndPure ==
  \A k \in 1..Len(bouts) :
    /\ bouts[k].after = bouts[k].before
    /\ k > 1 =>
         /\ bouts[k].lband = bouts[k - 1].lband
         /\ bouts[k].uband = bouts[k - 1].uband
         /\ bouts[k].j_pat = bouts[k - 1].j_pat

\* the second call has returned, on a state with a nonzero pattern
C8_Witness ==
  /\ Len(bouts) >= 2
  /\ bouts[2].lband > 0
  /\ band.pc = "idle"

(***************************************************************************)
(* Claims about the index maps.                                            *)
(***************************************************************************)
\* the variables of the whole map that hold index i
Holders(s, i) == {p \in 1..Len(SimIndexBag(s)) : SimIndexBag(s)[p] = i}

\* the electrode's map as it is without the hysteresis option
PlainMesh(ed) == ElectrodeMesh(ed.name, ed.Nr, ed.ptr["start"], FALSE)

\* an index of the plain map, moved by one when it lies at or after the
\* place the 'hyst' index takes
ShiftedFrom(ed, i) == IF i >= ed.ptr["hyst"] THEN i + 1 ELSE i

\* C9: after Hysteresis.make_mesh has installed 'hyst' on an anode or on a
\* cathode the index map is a bijection onto [0, N); 'hyst' holds an index
\* no other variable of any domain holds; and every subsequent index of the
\* domain's map, in ptr and in r_ptr alike, is shifted by exactly one.
C9_HystKeepsBijectionAndShifts ==
  mesh.pc = "done" =>
    \A ed \in {sim.an, sim.ca} :
      "hyst" \in DOMAIN ed.ptr =>
        /\ IsBijection(sim)
        /\ Cardinality(Holders(sim, ed.ptr["hyst"])) = 1
        /\ \A k \in {"Li_ed", "phi_ed"} :
             ed.ptr[k] = ShiftedFrom(ed, PlainMesh(ed).ptr[k])
        /\ \A k \in 1..ed.Nr :
             ed.r_ptr[k] = ShiftedFrom(ed, PlainMesh(ed).r_ptr[k])

\* both electrodes carry the option, and the cathode's profile has moved
C9_Witness ==
  /\ mesh.pc = "done"
  /\ "hyst" \in DOMAIN sim.an.ptr
  /\ "hyst" \in DOMAIN sim.ca.ptr
  /\ sim.ca.Nr >= 2
  /\ sim.ca.r_ptr[1] = sim.ca.ptr["hyst"] + 1
  /\ sv[sim.ca.ptr["hyst"]] = EdParams("cathode").hyst0

(***************************************************************************)
(* Claims about the current balance.                                       *)
(***************************************************************************)
\* the applied current density of a current-mode descriptor at time t
AppliedDensity(units, value, t) ==
  IF units = "A" THEN ValueAt(value, t) \div bat.area
                 ELSE (ValueAt(value, t) * bat.cap) \div bat.area

\* the currents the reaction rates of a state give
AnodeCurrent(s, y) ==
  -Sdot(s.an, Profile(s.an, y), y[s.an.ptr["phi_ed"]], y[s.el.ptr["phi_el"]])
     * EdParams("anode").A_s * EdParams("anode").thick * c.F

CathodeCurrent(s, y) ==
  Sdot(s.ca, Profile(s.ca, y), y[s.ca.ptr["phi_ed"]], y[s.el.ptr["phi_el"]])
     * EdParams("cathode").A_s * EdParams("cathode").thick * c.F

\* the last call was in current mode and left Row A and Row B zero
RowsVanish ==
  /\ Called
  /\ last.mode = "current"
  /\ last.units \in {"A", "C"}
  /\ last.out.err = "none"
  /\ last.out.res[RowA] = 0
  /\ last.out.res[RowB] = 0

\* i is within 0.5% of a
WithinHalfPercent(i, a) == 1000 * Abs(i - a) <= 5 * Abs(a)

\* C10: in current mode, whenever Row A and Row B are both zero, the
\* current derived from the anode's reaction rate equals the applied current
\* density and equals the cathode's; and verify returns True only if the
\* stored external current and the two electrode currents are within 0.5% of
\* the applied current at every saved time.
C10_CurrentsBalanceAndVerify ==
  /\ RowsVanish =>
       /\ AnodeCurrent(sim, last.out.sv)
            = AppliedDensity(last.units, last.value, last.t)
       /\ CathodeCurrent(sim, last.out.sv)
            = AppliedDensity(last.units, last.value, last.t)
  /\ ver.ret = "True" =>
       /\ Len(ver.stored) >= 1
       /\ \A k \in 1..Len(ver.stored) :
            LET a == VerifyApplied(ver.C_rate)
            IN  /\ WithinHalfPercent(ver.stored[k].i_ext, a)
                /\ WithinHalfPercent(VerifyIan(ver.stored[k]), a)
                /\ WithinHalfPercent(VerifyIca(ver.stored[k]), a)

\* a C-rate call has left both rows zero at a nonzero current, and verify
\* has returned True on a trajectory with a time on the edge of the band
C10_Witness ==
  /\ RowsVanish
  /\ last.units = "C"
  /\ AnodeCurrent(sim, last.out.sv) # 0
  /\ ver.ret = "True"
  /\ \E k \in 1..Len(ver.stored) : ver.stored[k].i_ext = 796

(***************************************************************************)
(* Claims about the rows of the voltage and power modes.                   *)
(***************************************************************************)
\* the anode's potential row
RowAn == sim.an.ptr["phi_ed"]

\* the cell power of a state: external current in amperes times the
\* cathode potential
CellPower(s, y) == AnodeCurrent(s, y) * bat.area * y[s.ca.ptr["phi_ed"]]

\* C11: Row A is zero in voltage mode exactly when the cathode potential
\* equals value(t), in power mode exactly when the cell power (external
\* current in amperes times cell voltage) equals value(t); the anode
\* potential row is zero exactly when the anode potential is 0.
C11_RowAZeroIffTargetMet ==
  (Called /\ last.out.err = "none") =>
    /\ last.mode = "voltage" =>
         (last.out.res[RowA] = 0
            <=> last.out.sv[RowA] = ValueAt(last.value, last.t))
    /\ last.mode = "power" =>
         (last.out.res[RowA] = 0
            <=> CellPower(sim, last.out.sv) = ValueAt(last.value, last.t))
    /\ (last.out.res[RowAn] = 0 <=> last.out.sv[RowAn] = 0)

\* a power-mode call at a state that delivers the commanded power
C11_Witness ==
  /\ Called
  /\ last.mode = "power"
  /\ last.out.err = "none"
  /\ last.out.res[RowA] = 0
  /\ ValueAt(last.value, last.t) # 0
  /\ last.out.res[RowAn] = 0

\* the reaction-charge term of an electrode as the current-mode rows have it:
\* sdot*A_s*thick*F
ReactionCharge(s, ed, y) ==
  Sdot(ed, Profile(ed, y), y[ed.ptr["phi_ed"]], y[s.el.ptr["phi_el"]])
    * EdParams(ed.name).A_s * EdParams(ed.name).thick * c.F

\* the same call with the mode replaced
WithMode(m) ==
  Residuals(last.t, last.out.sv, last.out.svdot, ZerosLike(last.out.sv), sim,
            NeutralFlags,
            [mode |-> m, units |-> last.units, value |-> last.value,
             events |-> NoEvents])

\* C12: in voltage mode and in power mode Row B is the same expression of the
\* state, and it is anode_reaction_charge + cathode_reaction_charge, each
\* term being the sdot*A_s*thick*F of the current-mode rows.
C12_RowBIsChargeBalance ==
  (Called /\ last.out.err = "none" /\ last.mode \in {"voltage", "power"}) =>
    /\ last.out.res[RowB] = WithMode("voltage").res[RowB]
    /\ last.out.res[RowB] = WithMode("power").res[RowB]
    /\ last.out.res[RowB]
         = ReactionCharge(sim, sim.an, last.out.sv)
             + ReactionCharge(sim, sim.ca, last.out.sv)

\* the value function t -> capacity * value(t)
TimesCapacity(value) ==
  [c0 |-> value.c0 * bat.cap, c1 |-> value.c1 * bat.cap]

\* the same call in absolute current, with the value scaled by the capacity
AsAbsoluteCurrent ==
  Residuals(last.t, last.out.sv, last.out.svdot, ZerosLike(last.out.sv), sim,
            last.out.flags,
            [mode |-> "current", units |-> "A",
             value |-> TimesCapacity(last.value), events |-> NoEvents])

\* C13: for the same (t, sv, svdot, sim), a call in mode current with units
\* 'C' and value v writes exactly the res that units 'A' writes with value
\* v*capacity: the same rows, and the same values in them.
C13_CRateIsScaledAbsolute ==
  (Called /\ last.mode = "current" /\ last.units = "C") =>
    /\ last.out.err = AsAbsoluteCurrent.err
    /\ last.out.written = AsAbsoluteCurrent.written
    /\ \A i \in last.out.written : last.out.res[i] = AsAbsoluteCurrent.res[i]

\* a C-rate call with a nonzero value that leaves both rows nonzero
C13_Witness ==
  /\ Called
  /\ last.mode = "current"
  /\ last.units = "C"
  /\ ValueAt(last.value, last.t) # 0
  /\ last.out.res[RowA] # 0
  /\ last.out.res[RowB] # 0

(***************************************************************************)
(* Claims about the external current and exp['events'].                    *)
(***************************************************************************)
\* the descriptors that carry both a mode and a units entry
KeyedDescriptors == {d \in Descriptors : d.mode # NoKey /\ d.units # NoKey}

\* the same call with another descriptor
WithDescriptor(d) ==
  Residuals(last.t, last.out.sv, last.out.svdot, ZerosLike(last.out.sv), sim,
            last.out.flags,
            [mode |-> d.mode, units |-> d.units, value |-> d.value,
             events |-> NoEvents])

\* current, voltage and power of the events are those of every other
\* descriptor's call on the same (t, sv, sim)
EventsIgnoreDescriptor ==
  \A d \in KeyedDescriptors :
    \A k \in {"current_A", "voltage_V", "power_W"} :
      WithDescriptor(d).events[k] = last.out.events[k]

\* C14 as stated: the external current is derived from the reference
\* electrode's surface reaction rate (the reference electrode is the cathode,
\* whose potential row is Row A), scaled by reactive area and Faraday's
\* constant, and current, voltage and power of exp['events'] are the same for
\* calls on the same (t, sv, sim) that differ in mode, units or value.
C14_CurrentFromReferenceElectrode ==
  (Called /\ last.out.err = "none") =>
    /\ last.out.events["current_A"]
         = CathodeCurrent(sim, last.out.sv) * bat.area
    /\ EventsIgnoreDescriptor

\* C14 as amended: the external current is derived from the anode's surface
\* reaction rate, -sdot_an*A_s*thick*F, and current, voltage and power of
\* exp['events'] are the same for calls on the same (t, sv, sim) that differ
\* in mode, units or value.
C14_CurrentFromAnode ==
  (Called /\ last.out.err = "none") =>
    /\ last.out.events["current_A"] = AnodeCurrent(sim, last.out.sv) * bat.area
    /\ last.out.events["voltage_V"] = last.out.sv[RowA]
    /\ last.out.events["power_W"] = CellPower(sim, last.out.sv)
    /\ EventsIgnoreDescriptor

\* a call at a state whose two electrode currents differ, the anode's not
\* zero
C14_Witness ==
  /\ Called
  /\ last.out.err = "none"
  /\ last.mode = "voltage"
  /\ AnodeCurrent(sim, last.out.sv) # 0
  /\ AnodeCurrent(sim, last.out.sv) # CathodeCurrent(sim, last.out.sv)
  /\ last.out.events["current_A"] # 0

(***************************************************************************)
(* Claims about what a residuals call may change.                          *)
(***************************************************************************)
\* one descriptor for each of the four branches
BranchDescriptors ==
  {d \in Descriptors : /\ <<d.mode, d.units>> \in Supported
                       /\ d.value.c1 = 0
                       /\ d.value.c0 # 0}

\* C15: between two residuals calls that differ only in the descriptor
\* (mode, units, value), only the cathode potential row and the electrolyte
\* potential row of res may differ: every other row is left the same by the
\* call as by the call of each of the four branches on the same arguments.
C15_OnlyRowsABDependOnDescriptor ==
  [][\A d \in BranchDescriptors :
       \E o \in {Residuals(last'.t, sv, svdot, res, sim, flags,
                           [mode |-> d.mode, units |-> d.units,
                            value |-> d.value, events |-> exp.events])} :
         \A i \in (0..(sim.N - 1)) \ {RowA, RowB} : res'[i] = o.res[i]]_vars

\* a power-mode call whose Row A and Row B both differ from those of the
\* voltage branch, on a map with a hysteresis index
C15_Witness ==
  /\ Called
  /\ last.mode = "power"
  /\ "hyst" \in DOMAIN sim.ca.ptr
  /\ last.out.res[RowA] # WithMode("voltage").res[RowA]
  /\ \E d \in BranchDescriptors :
       last.out.res[RowB] # WithDescriptor(d).res[RowB]

\* C16: a residuals call never modifies sv or svdot; it changes only the res
\* buffer and the 'events' entry of the descriptor: the simulation (index
\* maps, _flags, _t0) and the descriptor's mode, units and value are as the
\* call was given them.
C16_CallChangesOnlyResAndEvents ==
  [][/\ sv' = sv
     /\ svdot' = svdot
     /\ sim' = sim
     /\ flags' = flags
     /\ exp'.mode = last'.mode
     /\ exp'.units = last'.units
     /\ exp'.value = last'.value
     /\ DOMAIN exp' = {"mode", "units", "value", "events"}
     /\ DOMAIN res' = DOMAIN res]_vars

\* a call that has changed res and stored its events
C16_Witness ==
  /\ Called
  /\ last.out.err = "none"
  /\ res # ZerosLike(res)
  /\ DOMAIN exp.events # {}
  /\ sv = last.out.sv
  /\ \E i \in DOMAIN sv : sv[i] # 0

\* C17: residuals raises no error for any valid descriptor; for mode
\* 'voltage' or 'power', where units carries no meaning, a descriptor with
\* no units entry is evaluated without error and writes Row A and Row B.
C17_NoErrorForValidDescriptor ==
  (/\ Called
   /\ \/ <<last.mode, last.units>> \in Supported
      \/ (last.mode \in {"voltage", "power"} /\ last.units = NoKey)) =>
    /\ last.out.err = "none"
    /\ {RowA, RowB} \subseteq last.out.written

(***************************************************************************)
(* Claims about solutions.                                                 *)
(***************************************************************************)
\* C18: a solution holds its own copy of the simulation, with the same
\* initial state vector and no shared mutable state: whatever post() calls
\* were made on solutions, the flags of the live simulation are unchanged.
C18_SolutionHoldsIndependentCopy ==
  /\ LiveFlags = NeutralFlags
  /\ live.ref # "none" =>
       /\ live.ref = "copy"
       /\ live.sol_sv0 = live.sv0

\* post() has raised on the second solution and left that solution's flags
\* set
C18_Witness ==
  /\ live.made = 2
  /\ pout = "raised"
  /\ flags = [post |-> TRUE, BC |-> "current"]
  /\ LiveFlags = NeutralFlags

(***************************************************************************)
(* Claims about the events record and the face fluxes.                     *)
(***************************************************************************)
EventKeys ==
  {"time_s", "time_min", "time_h", "current_A", "current_C", "voltage_V",
   "power_W"}

\* C19: after any sequence of residuals calls on a descriptor, once the
\* most recent call has returned, exp['events'] holds exactly the seven
\* fields, computed from that call alone: time_s = sim._t0 + t, time_min =
\* time_s/60, time_h = time_s/3600, current_C = current_A/capacity, power_W =
\* current_A*voltage_V; nothing of an earlier call survives.
C19_EventsOfLastCallOnly ==
  (Called /\ last.by = "solver" /\ last.out.err = "none") =>
    /\ DOMAIN exp.events = EventKeys
    /\ exp.events["time_s"] = sim.t0 + last.t
    /\ exp.events["time_min"] * 60 = exp.events["time_s"]
    /\ exp.events["time_h"] * 3600 = exp.events["time_s"]
    /\ exp.events["current_C"] * bat.cap = exp.events["current_A"]
    /\ exp.events["power_W"]
         = exp.events["current_A"] * exp.events["voltage_V"]
    /\ exp.events = FreshCall.events

\* a solver call at one hour with a nonzero current, made after post() calls
\* had run on the same simulation
C19_Witness ==
  /\ Called
  /\ last.by = "solver"
  /\ last.out.err = "none"
  /\ pout = "raised"
  /\ last.t = 3600
  /\ exp.events["time_h"] = 1
  /\ exp.events["current_A"] # 0

\* the face fluxes residuals builds for an electrode at state y
FluxesAt(s, ed, y) ==
  FaceJs(ed, Profile(ed, y),
         Sdot(ed, Profile(ed, y), y[ed.ptr["phi_ed"]], y[s.el.ptr["phi_el"]]))

\* the surface production rate of an electrode at state y
SurfaceRate(s, ed, y) ==
  Sdot(ed, Profile(ed, y), y[ed.ptr["phi_ed"]], y[s.el.ptr["phi_el"]])

\* C20: for both electrodes and every state, the face-flux vector has its
\* innermost face equal to 0 and its outermost face equal to the negative of
\* the electrode's surface production rate, whatever the mode and the
\* intercalation profile.
C20_FluxBoundaryFaces ==
  Called =>
    \A ed \in {sim.an, sim.ca} :
      LET Js == FluxesAt(sim, ed, last.out.sv)
      IN  /\ Len(Js) = ed.Nr + 1
          /\ Js[1] = 0
          /\ Js[ed.Nr + 1] = -SurfaceRate(sim, ed, last.out.sv)

\* a call on a rising profile with both electrodes reacting and a nonzero
\* flux through an inner face
C20_Witness ==
  /\ Called
  /\ last.mode = "power"
  /\ \A ed \in {sim.an, sim.ca} :
       /\ SurfaceRate(sim, ed, last.out.sv) # 0
       /\ Profile(ed, last.out.sv)[ed.Nr] # Profile(ed, last.out.sv)[1]
       /\ FluxesAt(sim, ed, last.out.sv)[2] # 0


\* the solution k was last given its data by dict_fill(d)
DictFilled(k) == soln[k].fill.by = "dict_fill"

\* this step is a to_dict() call on solution k
ToDictStep(k) == dout' # dout /\ dout'.op = "to_dict" /\ dout'.by = k

\* this step is k.dict_fill(d) with the dictionary that j.to_dict()
\* returned, j holding still what it held at that call
FillFromStep(k, j) ==
  /\ soln'[k] # soln[k]
  /\ soln'[k].fill.by = "dict_fill"
  /\ dout.op = "to_dict" /\ dout.err = "none" /\ dout.by = j
  /\ soln'[k].fill.d = dout.d
  /\ Fields(soln[j]) = dout.of

\* C21: to_dict and dict_fill are inverse on the seven fields: to_dict()
\* after dict_fill(d) returns the seven values of d, and a second solution
\* filled from a filled solution's to_dict() holds equal fields.
C21_ToDictInvertsDictFill ==
  [][/\ \A k \in SolIds :
          ToDictStep(k) /\ DictFilled(k)
            => dout'.err = "none" /\ dout'.d = soln[k].fill.d
     /\ \A k \in SolIds : \A j \in SolIds \ {k} :
          FillFromStep(k, j) => Fields(soln'[k]) = Fields(soln[j])]_vars

C21_Witness ==
  /\ dout.op = "to_dict" /\ dout.err = "none" /\ dout.by = 1
  /\ DictFilled(1) /\ dout.d = soln[1].fill.d
  /\ DictFilled(2) /\ soln[2].fill.d = dout.d
  /\ Fields(soln[2]) = Fields(soln[1])
  /\ Len(soln[2].t.v) = MaxNt

\* C22: from construction until ida_fill or dict_fill, each of t, y, ydot,
\* success, onroot, message and the solve time is None.
C22_AttributesNoneUntilFilled ==
  \A k \in SolIds :
    soln[k].fill.by = "none" => \A f \in FieldNames : soln[k][f].is = "None"

\* this step is a slice_and_save call
SaveStep == files'.call.n = files.call.n + 1

\* the file np.savez writes for the name given to this step's call
SaveTarget == np_savez_name(files'.call.savename)

C23_Replaced ==
  /\ files.call.n = 1 /\ files.call.err = "none"
  /\ ~files.call.overwrite /\ ~files.call.savename.npz
  /\ files.fs[np_savez_name(files.call.savename)] = 1

TimesRegistered(func) ==
  Cardinality({i \in 1..Len(atex.atexit) : atex.atexit[i] = func})

\* C29: register_atexit is idempotent: each distinct function is handed to
\* atexit.register at most once, however often register_atexit is called
\* with it.
C29_RegisteredAtMostOnce == \A func \in Funcs : TimesRegistered(func) <= 1

(***************************************************************************)
(* Claims about the perturbation passes of bandwidth.                      *)
(***************************************************************************)
\* the baseline of the running bandwidth call: y, y' and the residual there
BaseSv == band.before.sv0

BaseSvdot == band.before.svdot0

ResidualAt(y, ydot) ==
  Residuals(0, y, ydot, ZerosLike(y), sim, band.before.flags, BandExpr).res

\* the components in which two vectors differ
DiffAt(a, b) == {i \in DOMAIN a : a[i] # b[i]}

\* the column that the state (y, y') gives on its own: res_0 - res, with
\* both residuals evaluated on fresh buffers
ColumnAlone(y, ydot) ==
  LET r0 == ResidualAt(BaseSv, BaseSvdot)
      r == ResidualAt(y, ydot)
  IN  [i \in DOMAIN r |-> r0[i] - r[i]]

\* C24: the state used for column j differs from the baseline in exactly
\* component j, of y in the first pass and of y' in the second; the
\* baseline vectors and the baseline residual are never modified; and the
\* column is the one the perturbed state gives on its own, whatever columns
\* were processed before it.
C24_ColumnsPerturbOneComponent ==
  [][/\ band.pc \in {"pass1", "pass2", "scan"} =>
          /\ mem[band.sv] = BaseSv
          /\ mem[band.svdot] = BaseSvdot
          /\ mem[band.res_0] = ResidualAt(BaseSv, BaseSvdot)
     /\ band.pc = "pass1" /\ band' # band =>
          /\ DiffAt(mem'[band'.dsv], BaseSv) = {band.j}
          /\ mem'[band'.svdot] = BaseSvdot
          /\ \A i \in 0..(sim.N - 1) :
               band'.jac[i][band.j]
                 = ColumnAlone(mem'[band'.dsv], BaseSvdot)[i]
     /\ band.pc = "pass2" /\ band' # band =>
          /\ DiffAt(mem'[band'.dsvdot], BaseSvdot) = {band.j}
          /\ mem'[band'.sv] = BaseSv
          /\ \A i \in 0..(sim.N - 1) :
               band'.jac[i][band.j] - band.jac[i][band.j]
                 = ColumnAlone(BaseSv, mem'[band'.dsvdot])[i]]_vars

\* the first pass has run to its last column and the second has just
\* perturbed y'[0]; both left entries
C24_Witness ==
  /\ band.pc = "pass2" /\ band.j = 1
  /\ \E i \in 0..(sim.N - 1) :
       ColumnAlone(mem[band.dsv], BaseSvdot)[i] # 0
  /\ \E i \in 0..(sim.N - 1) :
       ColumnAlone(BaseSv, mem[band.dsvdot])[i] # 0

\* the state with component j of a raised by the step bandwidth adds
Perturbed(a, j) == [a EXCEPT ![j] = @ + PerturbStep(@)]

\* the residual at the state a bandwidth call began on, with y or y'
\* replaced
ResidualOf(o, y, ydot) ==
  Residuals(0, y, ydot, ZerosLike(y), sim, o.before.flags, BandExpr).res

\* row i changes when y[j] alone is perturbed
ChangesUnderY(o, i, j) ==
  ResidualOf(o, Perturbed(o.before.sv0, j), o.before.svdot0)[i]
    # ResidualOf(o, o.before.sv0, o.before.svdot0)[i]

\* row i changes when y'[j] alone is perturbed
ChangesUnderYdot(o, i, j) ==
  ResidualOf(o, o.before.sv0, Perturbed(o.before.svdot0, j))[i]
    # ResidualOf(o, o.before.sv0, o.before.svdot0)[i]

SupportedDescriptors ==
  {[mode |-> d.mode, units |-> d.units, value |-> d.value,
    events |-> NoEvents] :
     d \in {e \in Descriptors : <<e.mode, e.units>> \in Supported}}

\* the residual under descriptor d at the state a bandwidth call began on,
\* with y or y' replaced
ResidualIn(d, o, y, ydot) ==
  Residuals(0, y, ydot, ZerosLike(y), sim, o.before.flags, d).res

\* under descriptor d, row i depends on y[j] or on y'[j]
DependsOn(d, o, i, j) ==
  LET r0 == ResidualIn(d, o, o.before.sv0, o.before.svdot0)[i]
  IN  \/ ResidualIn(d, o, Perturbed(o.before.sv0, j), o.before.svdot0)[i]
           # r0
      \/ ResidualIn(d, o, o.before.sv0, Perturbed(o.before.svdot0, j))[i]
           # r0

\* C27: the returned bands bound the dependencies of the residual in every
\* supported mode: if row i depends on y[j] or y'[j] under a current,
\* voltage or power descriptor, then i - j <= L and j - i <= U.
C27_BandsBoundEveryMode ==
  \A k \in 1..Len(bouts) :
    \A d \in SupportedDescriptors :
      \A i \in 0..(sim.N - 1), j \in 0..(sim.N - 1) :
        DependsOn(d, bouts[k], i, j)
          => i - j <= bouts[k].lband /\ j - i <= bouts[k].uband

(***************************************************************************)
(* Claims about post().                                                    *)
(***************************************************************************)
\* C25: post() calls residuals once per saved time, in the order of sol.t,
\* on the state and derivative saved for that time and with the post flag
\* set, and takes from the descriptor the external current that call left
\* there: the loop reaches every saved time, so post() returns after
\* len(sol.t) calls.
C25_PostCallsOncePerSavedTime ==
  /\ (pc = "idle" /\ pout # "none") =>
       /\ pout = "returned"
       /\ li = sol_nt + 1
  /\ (pc = "loop" /\ li > 1) =>
       /\ last.by = "post"
       /\ last.t = SolT(li - 1)
       /\ last.out.flags.post
       /\ last.out.sv = sv /\ last.out.svdot = svdot
       /\ "i_ext" \in DOMAIN ExpAfter(exp, last.out)

=========================================================================
